---- MODULE Spec2Model ----
(***************************************************************************)
(* Model of the project analyzer (scanner.py) and of the analysis-context  *)
(* store (analysis_context.py).                                            *)
(*                                                                         *)
(* Text (file content, paths, import names) is a sequence of one-character *)
(* strings, so that Python's substring test, slicing and len() are         *)
(* computed and not assumed.  A dict is a TLA+ record (fixed keys) or a    *)
(* sequence of [key, value] entries in insertion order (computed keys).    *)
(***************************************************************************)
EXTENDS Integers, Sequences, FiniteSets, TLC

\* ------------------------------------------------------------------ bounds

\* The largest number of files the file system under the root holds.
MaxFiles == 5

\* The most context saves in one behaviour of the context store.
MaxSaves == 3

\* The most runs of analyze_project in one behaviour with repeated runs.
MaxRuns == 2

\* The largest number of files under the root in a behaviour with repeated runs.
RerunFiles == 2

\* The largest number of files of a generated tree.
StageFiles == 2

\* ------------------------------------------------------- program constants

\* content[:500], len(content) > 500
PreviewChars == 500

\* _get_content_preview(..., max_chars=200)
MaxChars == 200

\* ------------------------------------------------------------- text helpers

\* Python: sub in s
Contains(sub, s) ==
    \/ Len(sub) = 0
    \/ \E k \in 1..(Len(s) - Len(sub) + 1) : SubSeq(s, k, k + Len(sub) - 1) = sub

\* The one-character strings of a TLA+ string constant cannot be taken apart,
\* so every text the model searches is written as a tuple of characters.
UpperChars == <<"A", "B", "C", "D", "E", "F", "G", "H", "I", "J", "K", "L", "M",
                "N", "O", "P", "Q", "R", "S", "T", "U", "V", "W", "X", "Y", "Z">>

LowerChars == <<"a", "b", "c", "d", "e", "f", "g", "h", "i", "j", "k", "l", "m",
                "n", "o", "p", "q", "r", "s", "t", "u", "v", "w", "x", "y", "z">>

LowerChar(c) ==
    IF \E k \in 1..Len(UpperChars) : UpperChars[k] = c
    THEN LowerChars[CHOOSE k \in 1..Len(UpperChars) : UpperChars[k] = c]
    ELSE c

\* str.lower()
Lower(s) == [k \in 1..Len(s) |-> LowerChar(s[k])]

\* The position of the last occurrence of character c in s, 0 when absent.
LastIndex(s, c) ==
    IF \E k \in 1..Len(s) : s[k] = c
    THEN CHOOSE k \in 1..Len(s) : s[k] = c /\ \A j \in (k + 1)..Len(s) : s[j] # c
    ELSE 0

\* Path.name: the final component of a path
PathName(p) == SubSeq(p, LastIndex(p, "/") + 1, Len(p))

\* Path.suffix: the final component's last dot and what follows it, unless the
\* dot is the component's first or last character
PathSuffix(p) ==
    LET name == PathName(p)
        d == LastIndex(name, ".")
    IN  IF d > 1 /\ d < Len(name) THEN SubSeq(name, d, Len(name)) ELSE <<>>

\* The first component of a relative path that has a directory part, else <<>>.
FirstIndex(s, c) ==
    IF \E k \in 1..Len(s) : s[k] = c
    THEN CHOOSE k \in 1..Len(s) : s[k] = c /\ \A j \in 1..(k - 1) : s[j] # c
    ELSE 0

RECURSIVE PathDirs(_)
\* The directory components of a relative path, outermost first.
PathDirs(p) ==
    LET k == FirstIndex(p, "/")
    IN  IF k = 0 THEN <<>>
        ELSE <<SubSeq(p, 1, k - 1)>> \o PathDirs(SubSeq(p, k + 1, Len(p)))

\* str.split('.')[-1]
LastDotSegment(s) == SubSeq(s, LastIndex(s, ".") + 1, Len(s))

\* len(content.splitlines()) for text whose only line break is "\n"
CountChar(s, c) == Cardinality({k \in 1..Len(s) : s[k] = c})

LineCount(s) ==
    IF Len(s) = 0 THEN 0
    ELSE CountChar(s, "\n") + (IF s[Len(s)] = "\n" THEN 0 ELSE 1)

\* ------------------------------------------------------------ dict helpers

\* dict.get(key, default) on a record
Get(d, key, default) == IF key \in DOMAIN d THEN d[key] ELSE default

RECURSIVE DictIndex(_, _)
\* The position of key in an insertion-ordered dict, 0 when absent.
DictIndex(d, key) ==
    IF Len(d) = 0 THEN 0
    ELSE IF d[Len(d)].key = key /\ DictIndex(SubSeq(d, 1, Len(d) - 1), key) = 0
         THEN Len(d)
         ELSE DictIndex(SubSeq(d, 1, Len(d) - 1), key)

\* d[key] = value: an existing key keeps its position, a new key is appended
DictSet(d, key, value) ==
    IF DictIndex(d, key) = 0
    THEN Append(d, [key |-> key, value |-> value])
    ELSE [d EXCEPT ![DictIndex(d, key)] = [key |-> key, value |-> value]]

\* --------------------------------------------------------- the file system
\* A file of the tree under the root: its path relative to the root, what
\* stat(), open().read() and ast.parse() give for it.  tree lists, in the
\* order of ast.walk (breadth first), the nodes whose type the analyzer tests
\* for; parent is the position of the nearest such ancestor, 0 at module level.

\* main.py: imports os and never uses it; one undocumented function with one if.
File_main ==
    [path |-> <<"m", "a", "i", "n", ".", "p", "y">>,
     stat_ok |-> TRUE, size |-> 62, read_ok |-> TRUE, parse_ok |-> TRUE, err |-> "",
     text |-> <<"i", "m", "p", "o", "r", "t", " ", "o", "s", "\n", "d", "e", "f", " ", "r", "u", "n", "(", "x", ")", ":", "\n", " ", " ", " ", " ", "i", "f", " ", "x", ":", "\n", " ", " ", " ", " ", " ", " ", " ", " ", "r", "e", "t", "u", "r", "n", " ", "1", "\n", " ", " ", " ", " ", "r", "e", "t", "u", "r", "n", " ", "0", "\n">>,
     tree |-> <<
       [kind |-> "Import", parent |-> 0, name |-> "", line |-> 1, names |-> <<<<"o", "s">>>>, module |-> <<>>, op |-> "", nvalues |-> 0, doc |-> FALSE, args |-> <<>>, methods |-> <<>>, bases |-> <<>>],
       [kind |-> "FunctionDef", parent |-> 0, name |-> "run", line |-> 2, names |-> <<>>, module |-> <<>>, op |-> "", nvalues |-> 0, doc |-> FALSE, args |-> <<"x">>, methods |-> <<>>, bases |-> <<>>],
       [kind |-> "If", parent |-> 2, name |-> "", line |-> 3, names |-> <<>>, module |-> <<>>, op |-> "", nvalues |-> 0, doc |-> FALSE, args |-> <<>>, methods |-> <<>>, bases |-> <<>>]
     >>]

\* test_x.py: an empty source file.
File_test ==
    [path |-> <<"t", "e", "s", "t", "_", "x", ".", "p", "y">>,
     stat_ok |-> TRUE, size |-> 0, read_ok |-> TRUE, parse_ok |-> TRUE, err |-> "",
     text |-> <<>>,
     tree |-> <<>>]

\* README.md: a short text file.
File_readme ==
    [path |-> <<"R", "E", "A", "D", "M", "E", ".", "m", "d">>,
     stat_ok |-> TRUE, size |-> 10, read_ok |-> TRUE, parse_ok |-> TRUE, err |-> "",
     text |-> <<"T", "O", "D", "O", " ", "d", "o", "c", "s", "\n">>,
     tree |-> <<>>]

\* SCRIPT.PY: a source file whose extension is upper case.
File_upper ==
    [path |-> <<"S", "C", "R", "I", "P", "T", ".", "P", "Y">>,
     stat_ok |-> TRUE, size |-> 10, read_ok |-> TRUE, parse_ok |-> TRUE, err |-> "",
     text |-> <<"i", "m", "p", "o", "r", "t", " ", "o", "s", "\n">>,
     tree |-> <<
       [kind |-> "Import", parent |-> 0, name |-> "", line |-> 1, names |-> <<<<"o", "s">>>>, module |-> <<>>, op |-> "", nvalues |-> 0, doc |-> FALSE, args |-> <<>>, methods |-> <<>>, bases |-> <<>>]
     >>]

\* bad.py: a source file with a syntax error.
File_bad ==
    [path |-> <<"b", "a", "d", ".", "p", "y">>,
     stat_ok |-> TRUE, size |-> 7, read_ok |-> TRUE, parse_ok |-> FALSE, err |-> "SyntaxError",
     text |-> <<"d", "e", "f", " ", "(", ":", "\n">>,
     tree |-> <<>>]

\* gone.py: a dangling symbolic link; os.walk lists it and stat() fails.
File_gone ==
    [path |-> <<"g", "o", "n", "e", ".", "p", "y">>,
     stat_ok |-> FALSE, size |-> 0, read_ok |-> TRUE, parse_ok |-> TRUE, err |-> "FileNotFoundError",
     text |-> <<>>,
     tree |-> <<>>]

\* data.bin: bytes that are not valid UTF-8.
File_bin ==
    [path |-> <<"d", "a", "t", "a", ".", "b", "i", "n">>,
     stat_ok |-> TRUE, size |-> 4, read_ok |-> FALSE, parse_ok |-> TRUE, err |-> "UnicodeDecodeError",
     text |-> <<>>,
     tree |-> <<>>]

\* enc.py: a source file whose bytes are not valid UTF-8.
File_enc ==
    [path |-> <<"e", "n", "c", ".", "p", "y">>,
     stat_ok |-> TRUE, size |-> 7, read_ok |-> FALSE, parse_ok |-> TRUE, err |-> "UnicodeDecodeError",
     text |-> <<>>,
     tree |-> <<>>]

\* utils/helper.py: one documented function with a three-operand and.
File_helper ==
    [path |-> <<"u", "t", "i", "l", "s", "/", "h", "e", "l", "p", "e", "r", ".", "p", "y">>,
     stat_ok |-> TRUE, size |-> 59, read_ok |-> TRUE, parse_ok |-> TRUE, err |-> "",
     text |-> <<"i", "m", "p", "o", "r", "t", " ", "r", "e", "\n", "d", "e", "f", " ", "h", "(", "a", ",", " ", "b", ")", ":", "\n", " ", " ", " ", " ", "\"", "d", "o", "c", "\"", "\n", " ", " ", " ", " ", "r", "e", "t", "u", "r", "n", " ", "a", " ", "a", "n", "d", " ", "b", " ", "a", "n", "d", " ", "r", "e", "\n">>,
     tree |-> <<
       [kind |-> "Import", parent |-> 0, name |-> "", line |-> 1, names |-> <<<<"r", "e">>>>, module |-> <<>>, op |-> "", nvalues |-> 0, doc |-> FALSE, args |-> <<>>, methods |-> <<>>, bases |-> <<>>],
       [kind |-> "FunctionDef", parent |-> 0, name |-> "h", line |-> 2, names |-> <<>>, module |-> <<>>, op |-> "", nvalues |-> 0, doc |-> TRUE, args |-> <<"a", "b">>, methods |-> <<>>, bases |-> <<>>],
       [kind |-> "BoolOp", parent |-> 2, name |-> "", line |-> 4, names |-> <<>>, module |-> <<>>, op |-> "And", nvalues |-> 3, doc |-> FALSE, args |-> <<>>, methods |-> <<>>, bases |-> <<>>]
     >>]

\* .git/config: a file beneath an excluded directory.
File_git ==
    [path |-> <<".", "g", "i", "t", "/", "c", "o", "n", "f", "i", "g">>,
     stat_ok |-> TRUE, size |-> 7, read_ok |-> TRUE, parse_ok |-> TRUE, err |-> "",
     text |-> <<"[", "c", "o", "r", "e", "]", "\n">>,
     tree |-> <<>>]

\* utils/__pycache__/helper.pyc: a file beneath an excluded directory two levels down.
File_cache ==
    [path |-> <<"u", "t", "i", "l", "s", "/", "_", "_", "p", "y", "c", "a", "c", "h", "e", "_", "_",
                "/", "h", "e", "l", "p", "e", "r", ".", "p", "y", "c">>,
     stat_ok |-> TRUE, size |-> 4, read_ok |-> FALSE, parse_ok |-> FALSE,
     err |-> "UnicodeDecodeError",
     text |-> <<>>,
     tree |-> <<>>]

\* Every file a modelled file system may hold, in the order os.walk lists them
\* (the files of the root before those of its subdirectories).
Universe ==
    <<File_main, File_test, File_readme, File_upper, File_bad, File_gone,
      File_bin, File_enc, File_helper, File_git, File_cache>>

\* The file systems: a set of positions of Universe, at most MaxFiles of them.
FileSystems == {T \in SUBSET (1..Len(Universe)) : Cardinality(T) <= MaxFiles}

RECURSIVE Listing(_, _)
\* The files of file system S from position k on, in the order os.walk lists them.
Listing(S, k) ==
    IF k > Len(Universe) THEN <<>>
    ELSE (IF k \in S THEN <<Universe[k]>> ELSE <<>>) \o Listing(S, k + 1)

\* ProjectAnalyzer.exclude_dirs / ProjectScanner.exclude_dirs
exclude_dirs ==
    {<<".", "g", "i", "t">>,
     <<"_", "_", "p", "y", "c", "a", "c", "h", "e", "_", "_">>,
     <<".", "v", "e", "n", "v">>,
     <<"n", "o", "d", "e", "_", "m", "o", "d", "u", "l", "e", "s">>,
     <<".", "i", "d", "e", "a">>,
     <<"b", "u", "i", "l", "d">>,
     <<"d", "i", "s", "t">>}

\* ---------------------------------------------------------------- variables

VARIABLES
    cls,              \* the class of the object that runs: ProjectAnalyzer or ProjectScanner
    root_exists,      \* whether root_path names an existing directory
    fs,               \* the files beneath root_path (positions of Universe)
    generated,        \* further files beneath root_path: generated source files, in listing order
    pc,               \* where the run is
    has_callback,     \* whether the caller passed a progress callback
    cancel_event,     \* self.cancel_event
    files,            \* the local files: the paths enumerated
    i,                \* the number of loop iterations completed
    file_analysis,    \* the local file_analysis (files_info in scan_directory)
    architecture,     \* the local architecture
    issues,           \* the local issues
    suggestions,      \* the local suggestions
    file_feedback,    \* the local file_feedback
    progress,         \* the messages the callback received, in order
    result,           \* the value returned, once pc is "done"
    raised,           \* the exception that left the run, "" when none
    broke_at,         \* the iterations completed when the loop took its break, -1 if it did not
    set_at,           \* where the run was when cancel_scan set the flag
    runs,             \* the number of runs of analyze_project started
    fa_id,            \* the identity of the dict the local file_analysis is bound to
    returned          \* the results returned so far: each one's dict, content and return value

run_vars ==
    <<cls, root_exists, fs, generated, pc, has_callback, cancel_event, files, i,
      file_analysis, architecture, issues, suggestions, file_feedback, progress, result,
      raised, broke_at, set_at, runs, fa_id, returned>>

heap_vars == <<runs, fa_id, returned>>

\* The file a path names.
FileAt(path) ==
    IF \E k \in 1..Len(generated) : generated[k].path = path
    THEN generated[CHOOSE k \in 1..Len(generated) : generated[k].path = path]
    ELSE Universe[CHOOSE k \in 1..Len(Universe) : Universe[k].path = path]

\* ------------------------------------------------- enumeration, file types

RECURSIVE Concat(_)
\* list.extend over a sequence of lists
Concat(ss) == IF Len(ss) = 0 THEN <<>> ELSE ss[1] \o Concat(Tail(ss))

RECURSIVE Subdirs(_, _)
\* The names os.walk hands out as dirs for the directory dir: its
\* subdirectories that hold a file, each once, in listing order.
Subdirs(tree_files, dir) ==
    IF Len(tree_files) = 0 THEN <<>>
    ELSE LET d == PathDirs(Head(tree_files).path)
             rest == Subdirs(Tail(tree_files), dir)
         IN  IF Len(d) > Len(dir) /\ SubSeq(d, 1, Len(dir)) = dir
             THEN <<d[Len(dir) + 1]>> \o SelectSeq(rest, LAMBDA x : x # d[Len(dir) + 1])
             ELSE rest

\* A walk that descends into every subdirectory.
AllDirs(dirs) == dirs

\* dirs[:] = [d for d in dirs if d not in self.exclude_dirs]
KeptDirs(dirs) == SelectSeq(dirs, LAMBDA d : d \notin exclude_dirs)

RECURSIVE os_walk(_, _)
\* os.walk from the directory dir, top down: the files of dir, then the walk of
\* each subdirectory that was kept in dirs.
os_walk(tree_files, dir) ==
    LET filenames == SelectSeq(tree_files, LAMBDA f : PathDirs(f.path) = dir)
        dirs == KeptDirs(Subdirs(tree_files, dir))
    IN  filenames \o Concat([k \in 1..Len(dirs) |-> os_walk(tree_files, Append(dir, dirs[k]))])

\* _get_files: the files os.walk(root_path) yields.  os.walk ignores the error
\* of listing a root that does not exist and yields nothing.
_get_files(exists, tree_files) ==
    IF ~exists THEN <<>> ELSE os_walk(tree_files, <<>>)

type_map ==
    <<[ext |-> <<".", "p", "y">>, label |-> "Python"],
      [ext |-> <<".", "j", "s", "o", "n">>, label |-> "JSON"],
      [ext |-> <<".", "t", "x", "t">>, label |-> "Text"],
      [ext |-> <<".", "m", "d">>, label |-> "Markdown"],
      [ext |-> <<".", "h", "t", "m", "l">>, label |-> "HTML"],
      [ext |-> <<".", "c", "s", "s">>, label |-> "CSS"],
      [ext |-> <<".", "j", "s">>, label |-> "JavaScript"],
      [ext |-> <<".", "t", "s">>, label |-> "TypeScript"],
      [ext |-> <<".", "c", "p", "p">>, label |-> "C++"],
      [ext |-> <<".", "c">>, label |-> "C"],
      [ext |-> <<".", "j", "a", "v", "a">>, label |-> "Java"]>>

\* type_map.get(file_path.suffix.lower(), 'Unknown')
_get_file_type(path) ==
    LET ext == Lower(PathSuffix(path))
    IN  IF \E k \in 1..Len(type_map) : type_map[k].ext = ext
        THEN type_map[CHOOSE k \in 1..Len(type_map) : type_map[k].ext = ext].label
        ELSE "Unknown"

\* ------------------------------------------------------ the syntax-tree passes

\* Whether node d of tree is node a or lies beneath it (ast.walk(a) yields d).
RECURSIVE InSubtree(_, _, _)
InSubtree(tree, a, d) ==
    IF d = a THEN TRUE
    ELSE IF d = 0 THEN FALSE
    ELSE InSubtree(tree, a, tree[d].parent)

BranchKinds == {"If", "For", "While", "Try"}

\* A count that takes every boolean expression, `or` included.
ComplexityCountsOr(n) ==
    IF n.kind \in BranchKinds THEN 1
    ELSE IF n.kind = "BoolOp" THEN n.nvalues - 1
    ELSE 0

\* What one node adds to the file's complexity.
ComplexityOfNode(n) ==
    IF n.kind \in BranchKinds THEN 1
    ELSE IF n.kind = "BoolOp" /\ n.op = "And" THEN n.nvalues - 1
    ELSE 0

RECURSIVE SumSeq(_)
\* The sum of a sequence of numbers.
SumSeq(s) == IF Len(s) = 0 THEN 0 ELSE s[1] + SumSeq(Tail(s))

_calculate_complexity(tree) ==
    1 + SumSeq([k \in 1..Len(tree) |-> ComplexityOfNode(tree[k])])

\* What one node adds to a function's complexity.
FunctionComplexityOfNode(n) == IF n.kind \in BranchKinds THEN 1 ELSE 0

\* func is the position of the function's node in tree
_calculate_function_complexity(tree, func) ==
    1 + SumSeq([k \in 1..Len(tree) |->
                  IF InSubtree(tree, func, k) THEN FunctionComplexityOfNode(tree[k]) ELSE 0])

\* The nodes of one kind that ast.walk meets; with documented, only those for
\* which ast.get_docstring is truthy.
CountKind(tree, kind, documented) ==
    Cardinality({k \in 1..Len(tree) : tree[k].kind = kind /\ (documented => tree[k].doc)})

_check_docstrings(tree) ==
    [functions |-> CountKind(tree, "FunctionDef", TRUE),
     classes |-> CountKind(tree, "ClassDef", TRUE),
     total_functions |-> CountKind(tree, "FunctionDef", FALSE),
     total_classes |-> CountKind(tree, "ClassDef", FALSE)]

\* The names one import node contributes: alias.name for import, and
\* module.name (name alone when module is empty) for from-import.
ImportNames(n) ==
    IF n.kind = "Import" THEN n.names
    ELSE IF n.kind = "ImportFrom"
    THEN [k \in 1..Len(n.names) |->
            IF Len(n.module) > 0 THEN n.module \o <<".">> \o n.names[k] ELSE n.names[k]]
    ELSE <<>>

\* The imports list both passes build while walking the tree.
CollectImports(tree) == Concat([k \in 1..Len(tree) |-> ImportNames(tree[k])])

\* An import is a candidate when the last dot-separated segment of its name
\* does not occur in the text of the file.
_detect_unused_imports(content, tree) ==
    SelectSeq(CollectImports(tree),
              LAMBDA imp : ~Contains(LastDotSegment(imp), content))

\* A preview that is never cut.
SourcePreviewWhole(content) == content

\* content[:500] + '...' if len(content) > 500 else content
SourcePreview(content) ==
    IF Len(content) > PreviewChars
    THEN SubSeq(content, 1, PreviewChars) \o <<".", ".", ".">>
    ELSE content

ClassEntry(n) ==
    IF n.kind = "ClassDef"
    THEN <<[name |-> n.name, line |-> n.line, methods |-> n.methods, bases |-> n.bases]>>
    ELSE <<>>

\* The functions list: one entry per FunctionDef node, in walk order.
FunctionEntries(tree) ==
    LET idx == SelectSeq([k \in 1..Len(tree) |-> k], LAMBDA k : tree[k].kind = "FunctionDef")
    IN  [j \in 1..Len(idx) |->
            [name |-> tree[idx[j]].name, line |-> tree[idx[j]].line,
             args |-> tree[idx[j]].args,
             complexity |-> _calculate_function_complexity(tree, idx[j])]]

\* The analysis dict of a file that was read and parsed.
ParsedFields(f) ==
    [classes |-> Concat([k \in 1..Len(f.tree) |-> ClassEntry(f.tree[k])]),
     functions |-> FunctionEntries(f.tree),
     imports |-> CollectImports(f.tree),
     line_count |-> LineCount(f.text),
     content_preview |-> SourcePreview(f.text),
     complexity |-> _calculate_complexity(f.tree),
     docstrings |-> _check_docstrings(f.tree),
     unused_imports |-> _detect_unused_imports(f.text, f.tree)]

\* A slip the error branch could make: the empty lists kept beside the error.
AnalyzePythonFileKeepingLists(f) ==
    IF ~f.read_ok \/ ~f.parse_ok
    THEN [error |-> f.err, classes |-> <<>>, functions |-> <<>>, imports |-> <<>>]
    ELSE ParsedFields(f)

\* ProjectAnalyzer._analyze_python_file: the fields of a parsed file, or the
\* error of the read or the parse
_analyze_python_file(f) ==
    IF ~f.read_ok \/ ~f.parse_ok
    THEN [error |-> f.err]
    ELSE ParsedFields(f)

\* f.read(max_chars), and the marker when the read fails
_get_content_preview(f) ==
    IF ~f.read_ok
    THEN <<"[Binary or unreadable file]">>
    ELSE LET content == SubSeq(f.text, 1, IF Len(f.text) < MaxChars THEN Len(f.text) ELSE MaxChars)
         IN  IF Len(content) = MaxChars THEN content \o <<".", ".", ".">> ELSE content

\* Whether _analyze_file raises: file_path.stat() is outside every try.
AnalyzeFileRaises(f) == ~f.stat_ok

\* Which branch _analyze_file takes: file_path.suffix == '.py'
IsPySuffix(path) == PathSuffix(path) = <<".", "p", "y">>

\* _analyze_file when stat() succeeds
_analyze_file(f) ==
    LET info == [size |-> f.size, extension |-> PathSuffix(f.path),
                 type |-> _get_file_type(f.path)]
    IN  IF IsPySuffix(f.path)
        THEN _analyze_python_file(f) @@ info
        ELSE [content_preview |-> _get_content_preview(f)] @@ info

\* ProjectScanner._analyze_python_file: no complexity, docstrings,
\* unused_imports nor bases
ScannerClassEntry(n) ==
    IF n.kind = "ClassDef"
    THEN <<[name |-> n.name, line |-> n.line, methods |-> n.methods]>>
    ELSE <<>>

ScannerFunctionEntry(n) ==
    IF n.kind = "FunctionDef"
    THEN <<[name |-> n.name, line |-> n.line, args |-> n.args]>>
    ELSE <<>>

Scanner_analyze_python_file(f) ==
    IF ~f.read_ok \/ ~f.parse_ok
    THEN [error |-> f.err]
    ELSE [classes |-> Concat([k \in 1..Len(f.tree) |-> ScannerClassEntry(f.tree[k])]),
          functions |-> Concat([k \in 1..Len(f.tree) |-> ScannerFunctionEntry(f.tree[k])]),
          imports |-> CollectImports(f.tree),
          line_count |-> LineCount(f.text),
          content_preview |-> SourcePreview(f.text)]

Scanner_analyze_file(f) ==
    LET info == [size |-> f.size, extension |-> PathSuffix(f.path),
                 type |-> _get_file_type(f.path)]
    IN  IF IsPySuffix(f.path)
        THEN Scanner_analyze_python_file(f) @@ info
        ELSE [content_preview |-> _get_content_preview(f)] @@ info

\* ------------------------------------------------------------- aggregation
\* file_analysis is an insertion-ordered dict: a sequence of [key, value]
\* entries, key the relative path and value the record of the file.

\* A quotient num / den of two numbers (Python's true division), kept exact.
Ratio(num, den) == [num |-> num, den |-> den]

\* A threshold that takes in the ratio 1/2 itself.
RatioAtMostHalf(r) == 2 * r.num <= r.den

\* r > n, r < 1/2 for a quotient r with a positive denominator
RatioGreater(r, n) == r.num > n * r.den
RatioBelowHalf(r) == 2 * r.num < r.den

\* Thresholds of _detect_issues and _generate_suggestions
HighComplexity == 10
LargeFileLines == 500
LargeAverageSize == 100000
ManyFiles == 50
UnusedShown == 3

KW_main == <<"m", "a", "i", "n">>
KW_app == <<"a", "p", "p">>
KW_util == <<"u", "t", "i", "l">>
KW_helper == <<"h", "e", "l", "p", "e", "r">>
KW_test == <<"t", "e", "s", "t">>
KW_spec == <<"s", "p", "e", "c">>
KW_config == <<"c", "o", "n", "f", "i", "g">>
KW_settings == <<"s", "e", "t", "t", "i", "n", "g", "s">>

\* A chain that looks for the test keywords before the others.
CategorizeTestsFirst(path) ==
    LET p == Lower(path)
    IN  IF Contains(KW_test, p) \/ Contains(KW_spec, p) THEN "test_files"
        ELSE IF Contains(KW_main, p) \/ Contains(KW_app, p) THEN "main_modules"
        ELSE IF Contains(KW_util, p) \/ Contains(KW_helper, p) THEN "utils_modules"
        ELSE IF Contains(KW_config, p) \/ Contains(KW_settings, p) THEN "config_files"
        ELSE "none"

\* The if/elif chain that categorizes a path
Categorize(path) ==
    LET p == Lower(path)
    IN  IF Contains(KW_main, p) \/ Contains(KW_app, p) THEN "main_modules"
        ELSE IF Contains(KW_util, p) \/ Contains(KW_helper, p) THEN "utils_modules"
        ELSE IF Contains(KW_test, p) \/ Contains(KW_spec, p) THEN "test_files"
        ELSE IF Contains(KW_config, p) \/ Contains(KW_settings, p) THEN "config_files"
        ELSE "none"

PathsOf(fa, category) ==
    LET hits == SelectSeq(fa, LAMBDA e : Categorize(e.key) = category)
    IN  [k \in 1..Len(hits) |-> hits[k].key]

RECURSIVE Histogram(_)
\* languages[lang] = languages.get(lang, 0) + 1 over the records in order
Histogram(fa) ==
    IF Len(fa) = 0 THEN <<>>
    ELSE LET before == Histogram(SubSeq(fa, 1, Len(fa) - 1))
             lang == Get(fa[Len(fa)].value, "type", "Unknown")
             at == DictIndex(before, lang)
         IN  DictSet(before, lang, (IF at = 0 THEN 0 ELSE before[at].value) + 1)

\* An average taken without looking at the number of files.
AverageSizeUnguarded(total_size, total_files) == Ratio(total_size, total_files)

\* avg_file_size: 0 at first, total_size / total_files when total_files > 0
AverageSize(total_size, total_files) ==
    IF total_files > 0 THEN Ratio(total_size, total_files) ELSE Ratio(0, 1)

_analyze_architecture(fa) ==
    LET total_size == SumSeq([k \in 1..Len(fa) |-> Get(fa[k].value, "size", 0)])
        total_files == Len(fa)
    IN  [languages |-> Histogram(fa),
         main_modules |-> PathsOf(fa, "main_modules"),
         utils_modules |-> PathsOf(fa, "utils_modules"),
         test_files |-> PathsOf(fa, "test_files"),
         config_files |-> PathsOf(fa, "config_files"),
         total_files |-> total_files,
         total_lines |-> SumSeq([k \in 1..Len(fa) |-> Get(fa[k].value, "line_count", 0)]),
         avg_file_size |-> AverageSize(total_size, total_files)]

\* An inspection that looks at no type label.
InspectedAll(fa) == fa

\* The records _detect_issues inspects: info.get('type') == 'Python'
Inspected(fa) == SelectSeq(fa, LAMBDA e : Get(e.value, "type", "") = "Python")

HasHighComplexity(info) == Get(info, "complexity", 0) > HighComplexity

DocstringRatio(info) ==
    LET d == Get(info, "docstrings", [functions |-> 0, total_functions |-> 0])
    IN  Ratio(d.functions, d.total_functions)

HasMissingDocstrings(info) ==
    LET d == Get(info, "docstrings", [functions |-> 0, total_functions |-> 0])
    IN  d.total_functions > 0 /\ RatioBelowHalf(DocstringRatio(info))

HasUnusedImports(info) == Len(Get(info, "unused_imports", <<>>)) > 0

IsLargeFile(info) == Get(info, "line_count", 0) > LargeFileLines

KW_TODO == <<"T", "O", "D", "O">>
KW_FIXME == <<"F", "I", "X", "M", "E">>
KW_XXX == <<"X", "X", "X">>

HasMarkers(info) ==
    LET content == Get(info, "content_preview", <<>>)
    IN  Contains(KW_TODO, content) \/ Contains(KW_FIXME, content) \/ Contains(KW_XXX, content)

\* Whether a record enters the issue list of a category.
IssueRule(category, info) ==
    CASE category = "high_complexity_files" -> HasHighComplexity(info)
      [] category = "missing_docstrings" -> HasMissingDocstrings(info)
      [] category = "unused_imports" -> HasUnusedImports(info)
      [] category = "large_files" -> IsLargeFile(info)
      [] category = "potential_bugs" -> HasMarkers(info)

\* What the issue string of a category shows of the record, beside its path.
IssueDetail(category, info) ==
    CASE category = "high_complexity_files" -> info.complexity
      [] category = "missing_docstrings" -> DocstringRatio(info)
      [] category = "unused_imports" ->
            [shown |-> SubSeq(info.unused_imports, 1,
                              IF Len(info.unused_imports) < UnusedShown
                              THEN Len(info.unused_imports) ELSE UnusedShown),
             more |-> Len(info.unused_imports) > UnusedShown]
      [] category = "large_files" -> info.line_count
      [] category = "potential_bugs" -> 0

\* The entries of one issue list: one per inspected record that satisfies the
\* category's rule, in the order of file_analysis.
IssueList(fa, category) ==
    LET hits == SelectSeq(Inspected(fa), LAMBDA e : IssueRule(category, e.value))
    IN  [k \in 1..Len(hits) |->
            [path |-> hits[k].key, detail |-> IssueDetail(category, hits[k].value)]]

_detect_issues(fa) ==
    [high_complexity_files |-> IssueList(fa, "high_complexity_files"),
     missing_docstrings |-> IssueList(fa, "missing_docstrings"),
     unused_imports |-> IssueList(fa, "unused_imports"),
     large_files |-> IssueList(fa, "large_files"),
     potential_bugs |-> IssueList(fa, "potential_bugs")]

\* A rule table in which the code-quality rules are alternatives: the first
\* that fires keeps the later ones from firing.
GenerateSuggestionsFirstMatch(fa, arch, iss) ==
    [architecture |->
        (IF Len(arch.main_modules) = 0
         THEN <<"Consider creating a main entry point file (main.py, app.py, etc.)">> ELSE <<>>)
        \o (IF Len(arch.test_files) = 0
            THEN <<"Add unit tests to improve code reliability">> ELSE <<>>),
     code_quality |->
        IF Len(iss.high_complexity_files) > 0
        THEN <<"Refactor high-complexity functions into smaller, more focused functions">>
        ELSE IF Len(iss.missing_docstrings) > 0
        THEN <<"Add docstrings to all public functions and classes">>
        ELSE IF Len(iss.unused_imports) > 0
        THEN <<"Remove unused imports to clean up the codebase">>
        ELSE <<>>,
     performance |->
        IF RatioGreater(arch.avg_file_size, LargeAverageSize)
        THEN <<"Consider breaking large files into smaller modules">> ELSE <<>>,
     maintainability |->
        IF arch.total_files > ManyFiles
        THEN <<"Consider organizing code into packages/submodules">> ELSE <<>>]

_generate_suggestions(fa, arch, iss) ==
    [architecture |->
        (IF Len(arch.main_modules) = 0
         THEN <<"Consider creating a main entry point file (main.py, app.py, etc.)">> ELSE <<>>)
        \o (IF Len(arch.test_files) = 0
            THEN <<"Add unit tests to improve code reliability">> ELSE <<>>),
     code_quality |->
        (IF Len(iss.high_complexity_files) > 0
         THEN <<"Refactor high-complexity functions into smaller, more focused functions">>
         ELSE <<>>)
        \o (IF Len(iss.missing_docstrings) > 0
            THEN <<"Add docstrings to all public functions and classes">> ELSE <<>>)
        \o (IF Len(iss.unused_imports) > 0
            THEN <<"Remove unused imports to clean up the codebase">> ELSE <<>>),
     performance |->
        IF RatioGreater(arch.avg_file_size, LargeAverageSize)
        THEN <<"Consider breaking large files into smaller modules">> ELSE <<>>,
     maintainability |->
        IF arch.total_files > ManyFiles
        THEN <<"Consider organizing code into packages/submodules">> ELSE <<>>]

\* One line of a file's feedback text.
Line(label, text, num, den) == [label |-> label, text |-> text, num |-> num, den |-> den]

FeedbackOf(path, info) ==
    <<Line("Type", Get(info, "type", "Unknown"), 0, 1),
      Line("Size", "", Get(info, "size", 0), 1)>>
    \o (IF Get(info, "type", "") # "Python" THEN <<>>
        ELSE (IF "line_count" \in DOMAIN info
              THEN <<Line("Lines of code", "", info.line_count, 1)>> ELSE <<>>)
          \o (IF "classes" \in DOMAIN info /\ Len(info.classes) > 0
              THEN <<Line("Classes", "", Len(info.classes), 1)>> ELSE <<>>)
          \o (IF "functions" \in DOMAIN info /\ Len(info.functions) > 0
              THEN <<Line("Functions", "", Len(info.functions), 1)>> ELSE <<>>)
          \o (IF HasHighComplexity(info)
              THEN <<Line("High complexity - consider refactoring", "", 0, 1)>> ELSE <<>>)
          \o (IF HasMissingDocstrings(info)
              THEN <<Line("Low docstring coverage", "", DocstringRatio(info).num, DocstringRatio(info).den)>> ELSE <<>>)
          \o (IF HasUnusedImports(info)
              THEN <<Line("Potential unused imports", "", Len(info.unused_imports), 1)>>
              ELSE <<>>))

_generate_file_feedback(fa) ==
    [k \in 1..Len(fa) |-> [key |-> fa[k].key, value |-> FeedbackOf(fa[k].key, fa[k].value)]]

_create_summary(fa, arch, iss) ==
    [total_files |-> arch.total_files,
     total_lines |-> arch.total_lines,
     languages |-> arch.languages,
     issues_count |-> Len(iss.high_complexity_files) + Len(iss.missing_docstrings)
                      + Len(iss.unused_imports) + Len(iss.large_files)
                      + Len(iss.potential_bugs),
     main_modules |-> Len(arch.main_modules),
     test_coverage |-> Ratio(Len(arch.test_files),
                             IF arch.total_files > 1 THEN arch.total_files ELSE 1)]

\* ------------------------------------------------------ the context store
\* AnalysisContextManager: one file on disk (context_file) and two fields in
\* memory.  The file's content is the JSON text json.dump wrote: the members
\* of the top-level object in order, and whether the text was written to its
\* end (a write that fails part-way leaves a text json.load rejects).

VARIABLES
    context_file,     \* the file named by self.context_file
    current_context,  \* self.current_context
    context_summary,  \* self.context_summary
    clock,            \* the reading datetime.now() gives next
    last_op,          \* the last method called on the manager
    ret,              \* what that call returned
    saves,            \* per save_analysis_context call so far: its arguments, clock reading and outcome
    writer            \* the call (position in saves) that last wrote the file, 0 when none

ctx_vars ==
    <<context_file, current_context, context_summary, clock, last_op, ret, saves, writer>>

\* The report, and the worker threads of the window.
VARIABLES
    output,           \* the text format_analysis_results returned, block by block
    worker,           \* where the AnalysisWorker thread is: created, running, returned
    cancelled,        \* AnalysisWorker.cancelled
    seen_cancelled,   \* what run() read from self.cancelled at its check, None before it
    signals           \* the finished and error signals the AnalysisWorker emitted, in order

worker_vars == <<worker, cancelled, seen_cancelled, signals>>

\* The OllamaTypingWorker thread and the process it starts.
VARIABLES
    typing,           \* where run() is
    os_name,          \* os.name as run() read it, "" before
    stop_flag,        \* self.stop_flag
    process,          \* what self.process is bound to: None, or the process of the PTY or PIPE path
    child,            \* that process: running, dying (signalled, not yet gone) or exited
    pending,          \* the chunks that process wrote and run() has not read
    written,          \* the chunks that process wrote in all
    overdue,          \* whether time.time() - start_time exceeds timeout
    emitted           \* the new_char and finished_signal emissions, in order

typing_vars == <<typing, os_name, stop_flag, process, child, pending, written, overdue, emitted>>

gui_vars == <<output, worker_vars, typing_vars>>

vars == <<run_vars, ctx_vars, gui_vars>>


\* Python's None
None == [is_none |-> TRUE]

NoFile == [exists |-> FALSE, members |-> <<>>, closed |-> FALSE]

InitGui ==
    /\ output = <<>>
    /\ worker = "created"
    /\ cancelled = FALSE
    /\ seen_cancelled = None
    /\ signals = <<>>
    /\ typing = "created"
    /\ os_name = ""
    /\ stop_flag = FALSE
    /\ process = "None"
    /\ child = "none"
    /\ pending = 0
    /\ written = 0
    /\ overdue = FALSE
    /\ emitted = <<>>

\* str(n) for n >= 0
RECURSIVE IntChars(_)
Digits == <<"0", "1", "2", "3", "4", "5", "6", "7", "8", "9">>
IntChars(n) ==
    IF n < 10 THEN <<Digits[n + 1]>>
    ELSE IntChars(n \div 10) \o <<Digits[(n % 10) + 1]>>

\* f"{r:.1%}" for a quotient r >= 0: r * 100 rounded to one decimal, ties to even
PercentChars(r) ==
    LET q == (1000 * r.num) \div r.den
        rest == 2 * ((1000 * r.num) % r.den)
        tenths == IF rest > r.den \/ (rest = r.den /\ q % 2 = 1) THEN q + 1 ELSE q
    IN  IntChars(tenths \div 10) \o <<".">> \o IntChars(tenths % 10) \o <<"%">>

\* The characters of a type label.
LabelChars(label) ==
    CASE label = "Python" -> <<"P", "y", "t", "h", "o", "n">>
      [] label = "JSON" -> <<"J", "S", "O", "N">>
      [] label = "Text" -> <<"T", "e", "x", "t">>
      [] label = "Markdown" -> <<"M", "a", "r", "k", "d", "o", "w", "n">>
      [] label = "HTML" -> <<"H", "T", "M", "L">>
      [] label = "CSS" -> <<"C", "S", "S">>
      [] label = "JavaScript" -> <<"J", "a", "v", "a", "S", "c", "r", "i", "p", "t">>
      [] label = "TypeScript" -> <<"T", "y", "p", "e", "S", "c", "r", "i", "p", "t">>
      [] label = "C++" -> <<"C", "+", "+">>
      [] label = "C" -> <<"C">>
      [] label = "Java" -> <<"J", "a", "v", "a">>
      [] OTHER -> <<"U", "n", "k", "n", "o", "w", "n">>

\* sep.join(parts)
RECURSIVE Join(_, _)
Join(sep, parts) ==
    IF Len(parts) = 0 THEN <<>>
    ELSE IF Len(parts) = 1 THEN parts[1]
    ELSE parts[1] \o sep \o Join(sep, Tail(parts))

\* s[:n], for n of either sign
SliceTo(s, n) ==
    IF n >= 0 THEN SubSeq(s, 1, IF n < Len(s) THEN n ELSE Len(s))
    ELSE SubSeq(s, 1, IF Len(s) + n > 0 THEN Len(s) + n ELSE 0)

\* The text of an issue entry, as _detect_issues formats it.
IssueText(category, e) ==
    CASE category = "high_complexity_files" ->
            e.path \o <<" ", "(", "c", "o", "m", "p", "l", "e", "x", "i", "t", "y", ":",
                    " ">> \o IntChars(e.detail) \o <<")">>
      [] category = "missing_docstrings" ->
            e.path \o <<" ", "(">> \o PercentChars(e.detail) \o <<" ", "f", "u", "n", "c",
                    "t", "i", "o", "n", "s", " ", "d", "o", "c", "u", "m", "e", "n", "t", "e",
                            "d", ")">>
      [] category = "unused_imports" ->
            e.path \o <<":", " ">> \o Join(<<",", " ">>, e.detail.shown)
                   \o (IF e.detail.more THEN <<".", ".", ".">> ELSE <<>>)
      [] category = "large_files" ->
            e.path \o <<" ", "(">> \o IntChars(e.detail) \o <<" ", "l", "i", "n", "e", "s", ")">>
      [] OTHER -> e.path \o <<" ", "c", "o", "n", "t", "a", "i", "n", "s", " ", "T", "O", "D",
              "O", "/", "F", "I", "X", "M", "E", " ", "c", "o", "m", "m", "e", "n", "t", "s">>

\* The issue categories in the order of the issues dict, with
\* category.replace('_', ' ').title()
IssueCategories ==
    <<[key |-> "high_complexity_files", title |-> <<"H", "i", "g", "h", " ", "C", "o", "m",
            "p", "l", "e", "x", "i", "t", "y", " ", "F", "i", "l", "e", "s">>],
      [key |-> "missing_docstrings", title |-> <<"M", "i", "s", "s", "i", "n", "g", " ", "D",
              "o", "c", "s", "t", "r", "i", "n", "g", "s">>],
      [key |-> "unused_imports", title |-> <<"U", "n", "u", "s", "e", "d", " ", "I", "m", "p",
              "o", "r", "t", "s">>],
      [key |-> "large_files", title |-> <<"L", "a", "r", "g", "e", " ", "F", "i", "l", "e", "s">>],
      [key |-> "potential_bugs", title |-> <<"P", "o", "t", "e", "n", "t", "i", "a", "l", " ",
              "B", "u", "g", "s">>]>>

PromptModulesShown == 3
PromptIssuesShown == 3
PromptFilesShown == 10

\* Path(project_path).name
ProjectName(project_path) == PathName(project_path)

_extract_key_files(analysis_results) ==
    LET fa == Inspected(analysis_results.file_analysis)
    IN  [k \in 1..Len(fa) |->
            [key |-> fa[k].key,
             value |-> [type |-> fa[k].value.type,
                        classes |-> Len(Get(fa[k].value, "classes", <<>>)),
                        functions |-> Len(Get(fa[k].value, "functions", <<>>)),
                        lines |-> Get(fa[k].value, "line_count", 0),
                        complexity |-> Get(fa[k].value, "complexity", 0)]]]

\* The "Key Issues" lines of one category.
PromptIssues(category, issue_list) ==
    IF Len(issue_list) = 0 THEN <<>>
    ELSE <<"#", "#", "#", " ">> \o category.title \o <<"\n">>
         \o Concat([k \in 1..Len(SliceTo(issue_list, PromptIssuesShown)) |->
                       <<"-", " ">> \o IssueText(category.key, issue_list[k]) \o <<"\n">>])

\* The "Available Files" line of one record.
PromptFile(e) ==
    IF Get(e.value, "type", "") # "Python" THEN <<>>
    ELSE <<"-", " ", "*", "*">> \o e.key \o <<"*", "*", ":",
            " ">> \o IntChars(Get(e.value, "line_count", 0))
         \o <<" ", "l", "i", "n", "e", "s", ",",
                 " ">> \o IntChars(Len(Get(e.value, "classes", <<>>)))
         \o <<" ", "c", "l", "a", "s", "s", "e", "s", ",",
                 " ">> \o IntChars(Len(Get(e.value, "functions", <<>>)))
         \o <<" ", "f", "u", "n", "c", "t", "i", "o", "n", "s", "\n">>

_create_context_prompt(analysis_results, project_path) ==
    LET summary == analysis_results.summary
        arch == analysis_results.architecture
        iss == analysis_results.issues
        shown == SliceTo(analysis_results.file_analysis, PromptFilesShown)
    IN  <<"#", " ", "P", "r", "o", "j", "e", "c", "t", " ", "A", "n", "a", "l", "y", "s", "i",
            "s", " ", "C", "o", "n", "t", "e", "x", "t", "\n", "\n", "#", "#", " ", "P", "r",
                    "o", "j", "e", "c", "t", ":", " ">> \o ProjectName(project_path)
        \o <<"\n", "-", " ", "*", "*", "L", "o", "c", "a", "t", "i", "o", "n", "*", "*", ":",
                " ">> \o project_path
        \o <<"\n", "-", " ", "*", "*", "T", "o", "t", "a", "l", " ", "F", "i", "l", "e", "s",
                "*", "*", ":", " ">> \o IntChars(summary.total_files)
        \o <<"\n", "-", " ", "*", "*", "L", "i", "n", "e", "s", " ", "o", "f", " ", "C", "o",
                "d", "e", "*", "*", ":", " ">> \o IntChars(summary.total_lines)
        \o <<"\n", "-", " ", "*", "*", "L", "a", "n", "g", "u", "a", "g", "e", "s", "*", "*",
                ":", " ">>
        \o Join(<<",", " ">>, [k \in 1..Len(summary.languages) |->
                            LabelChars(summary.languages[k].key) \o <<":", " ">>
                            \o IntChars(summary.languages[k].value)])
        \o <<"\n", "-", " ", "*", "*", "I", "s", "s", "u", "e", "s", " ", "F", "o", "u", "n",
                "d", "*", "*", ":", " ">> \o IntChars(summary.issues_count)
        \o <<"\n", "\n", "#", "#", " ", "A", "r", "c", "h", "i", "t", "e", "c", "t", "u", "r",
                "e", " ", "O", "v", "e", "r", "v", "i", "e", "w", "\n">>
        \o (IF Len(arch.main_modules) > 0
            THEN <<"-", " ", "*", "*", "M", "a", "i", "n", " ", "M", "o", "d", "u", "l", "e",
                    "s", "*", "*", ":", " ">>
                 \o Join(<<",", " ">>, SliceTo(arch.main_modules, PromptModulesShown)) \o <<"\n">>
            ELSE <<>>)
        \o (IF Len(arch.utils_modules) > 0
            THEN <<"-", " ", "*", "*", "U", "t", "i", "l", "i", "t", "y", " ", "M", "o", "d",
                    "u", "l", "e", "s", "*", "*", ":", " ">>
                 \o Join(<<",", " ">>, SliceTo(arch.utils_modules, PromptModulesShown)) \o <<"\n">>
            ELSE <<>>)
        \o (IF Len(arch.test_files) > 0
            THEN <<"-", " ", "*", "*", "T", "e", "s", "t", " ", "F", "i", "l", "e", "s", "*",
                    "*", ":", " ">> \o IntChars(Len(arch.test_files)) \o <<"\n">>
            ELSE <<>>)
        \o <<"\n", "#", "#", " ", "K", "e", "y", " ", "I", "s", "s", "u", "e", "s", "\n">>
        \o Concat([k \in 1..Len(IssueCategories) |->
                      PromptIssues(IssueCategories[k], iss[IssueCategories[k].key])])
        \o <<"\n", "#", "#", " ", "A", "v", "a", "i", "l", "a", "b", "l", "e", " ", "F", "i",
                "l", "e", "s", "\n">>
        \o Concat([k \in 1..Len(shown) |-> PromptFile(shown[k])])
        \o <<"\n", "#", "#", " ", "U", "s", "a", "g", "e", " ", "N", "o", "t", "e", "s", "\n">>
        \o <<"-", " ", "I", " ", "h", "a", "v", "e", " ", "a", "n", "a", "l", "y", "z", "e",
                "d", " ", "t", "h", "i", "s", " ", "c", "o", "d", "e", "b", "a", "s", "e",
                        " ", "a", "n", "d", " ", "c", "a", "n", " ", "p", "r", "o", "v", "i",
                                "d", "e", " ", "i", "n", "s", "i", "g", "h", "t", "s", " ",
                                        "a", "b", "o", "u", "t", " ", "i", "t", "s", " ", "s",
                                                "t", "r", "u", "c", "t", "u", "r", "e", ",",
                                                        " ", "i", "s", "s", "u", "e", "s",
                                                                ",", " ", "a", "n", "d", " ",
                                                                        "i", "m", "p", "r",
                                                                                "o", "v", "e",
                                                                                        "m",
                                                                                                "e", "n", "t", "s", "\n">>
        \o <<"-", " ", "A", "s", "k", " ", "m", "e", " ", "a", "b", "o", "u", "t", " ", "s",
                "p", "e", "c", "i", "f", "i", "c", " ", "f", "i", "l", "e", "s", ",", " ",
                        "f", "u", "n", "c", "t", "i", "o", "n", "s", ",", " ", "o", "r", " ",
                                "a", "r", "c", "h", "i", "t", "e", "c", "t", "u", "r", "a",
                                        "l", " ", "d", "e", "c", "i", "s", "i", "o", "n", "s",
                                                "\n">>
        \o <<"-", " ", "I", " ", "c", "a", "n", " ", "s", "u", "g", "g", "e", "s", "t", " ",
                "r", "e", "f", "a", "c", "t", "o", "r", "i", "n", "g", " ", "a", "p", "p",
                        "r", "o", "a", "c", "h", "e", "s", " ", "o", "r", " ", "e", "x", "p",
                                "l", "a", "i", "n", " ", "c", "o", "m", "p", "l", "e", "x",
                                        " ", "c", "o", "d", "e", " ", "s", "e", "c", "t", "i",
                                                "o", "n", "s", "\n">>

\* The summary sentence, by the three values it is formatted from.
_create_context_summary(context_data) ==
    [project_name |-> Get(context_data, "project_name", <<"U", "n", "k", "n", "o", "w", "n">>),
     total_files |-> Get(Get(context_data, "summary", [total_files |-> 0]), "total_files", 0),
     issues_count |-> Get(Get(context_data, "summary", [issues_count |-> 0]), "issues_count", 0)]

\* The context_data dict of save_analysis_context
ContextData(analysis_results, project_path, now) ==
    [timestamp |-> now,
     project_path |-> project_path,
     project_name |-> ProjectName(project_path),
     summary |-> analysis_results.summary,
     architecture |-> analysis_results.architecture,
     issues |-> analysis_results.issues,
     suggestions |-> analysis_results.suggestions,
     file_feedback |-> analysis_results.file_feedback,
     key_files |-> _extract_key_files(analysis_results),
     context_prompt |-> _create_context_prompt(analysis_results, project_path)]

ContextKeys ==
    <<"timestamp", "project_path", "project_name", "summary", "architecture", "issues",
      "suggestions", "file_feedback", "key_files", "context_prompt">>

\* json.dump(context_data, f): the members of the object, in the order of the dict
json_dump(context_data) ==
    [exists |-> TRUE,
     members |-> [k \in 1..Len(ContextKeys) |->
                     [key |-> ContextKeys[k], value |-> context_data[ContextKeys[k]]]],
     closed |-> TRUE]

\* What a write that fails after `kept` members leaves in the file.
PartialWrite(content, kept) ==
    [exists |-> TRUE, members |-> SubSeq(content.members, 1, kept), closed |-> FALSE]

\* A file opened so that an existing text is kept: nothing is overwritten.
OverwriteKeepsExisting(old, content) == IF old.exists THEN old ELSE content

\* open(self.context_file, 'w') and the write: the new text replaces the old
Overwrite(old, content) == content

\* Whether json.load accepts the text of the file.
JsonValid(file) == file.closed

\* json.load(f): the object of the members read
json_load(file) ==
    [key \in {file.members[k].key : k \in 1..Len(file.members)} |->
        file.members[CHOOSE k \in 1..Len(file.members) :
                        /\ file.members[k].key = key
                        /\ \A j \in (k + 1)..Len(file.members) : file.members[j].key # key].value]

TruncateMargin == 100
DefaultMaxLength == 2000

TruncationMarker == <<"\n", "\n", "[", "C", "o", "n", "t", "e", "x", "t", " ", "t", "r", "u",
        "n", "c", "a", "t", "e", "d", " ", "f", "o", "r", " ", "l", "e", "n", "g", "t", "h",
                ".", ".", ".", "]">>

\* get_context_for_chat(max_length) in a state of the manager
get_context_for_chat(max_length) ==
    IF current_context = None \/ DOMAIN current_context = {}
    THEN None
    ELSE LET context == Get(current_context, "context_prompt", <<>>)
         IN  IF Len(context) > max_length
             THEN SliceTo(context, max_length - TruncateMargin) \o TruncationMarker
             ELSE context

get_context_summary == context_summary

has_context == current_context # None

\* ------------------------------------------------------ the analysis run
\* One object, a ProjectAnalyzer or a ProjectScanner, runs analyze_project or
\* scan_directory on one thread; cancel_scan may be called from another
\* thread between any two steps of the run.

\* A message passed to the progress callback.
Msg(text) == [text |-> text, name |-> <<>>, index |-> 0, total |-> 0]

\* A per-file message that counts from 0: i where the code has i+1.
FileMsgFromZero(text, name, index, total) ==
    [text |-> text, name |-> name, index |-> index - 1, total |-> total]

\* f"{text} {name}... ({index}/{total})"
FileMsg(text, name, index, total) ==
    [text |-> text, name |-> name, index |-> index, total |-> total]

\* if self.progress_callback: self.progress_callback(message)
Notify(message) == IF has_callback THEN Append(progress, message) ELSE progress

NoPlace == [pc |-> "never", i |-> 0]

\* The flag was set when the run began and the run's clear() reset it.
Cleared == [pc |-> "cleared", i |-> 0]

InitRun ==
    /\ cls \in {"ProjectAnalyzer", "ProjectScanner"}
    /\ root_exists \in BOOLEAN
    /\ fs \in FileSystems
    /\ (~root_exists => fs = {})
    /\ generated = <<>>
    /\ pc = "idle"
    /\ has_callback = FALSE
    /\ cancel_event = FALSE
    /\ files = <<>>
    /\ i = 0
    /\ file_analysis = <<>>
    /\ architecture = <<>>
    /\ issues = <<>>
    /\ suggestions = <<>>
    /\ file_feedback = <<>>
    /\ progress = <<>>
    /\ result = <<>>
    /\ raised = ""
    /\ broke_at = -1
    /\ set_at = NoPlace
    /\ runs = 0
    /\ fa_id = 0
    /\ returned = <<>>

\* cancel_scan(): self.cancel_event.set(), from any thread at any time
cancel_scan ==
    /\ cancel_event' = TRUE
    /\ set_at' = IF cancel_event THEN set_at ELSE [pc |-> pc, i |-> i]
    /\ UNCHANGED <<cls, root_exists, fs, generated, pc, has_callback, files, i, file_analysis,
                   architecture, issues, suggestions, file_feedback, progress, result,
                   raised, broke_at>>
    /\ UNCHANGED heap_vars
    /\ UNCHANGED ctx_vars
    /\ UNCHANGED gui_vars

\* A start of the run that leaves the flag as the previous run left it.
analyze_project_keeps_flag ==
    /\ cls = "ProjectAnalyzer"
    /\ pc = "idle"
    /\ \E cb \in BOOLEAN : has_callback' = cb
    /\ set_at' = IF cancel_event THEN Cleared ELSE NoPlace
    /\ pc' = "start"
    /\ UNCHANGED <<cls, root_exists, fs, generated, cancel_event, files, i, file_analysis, architecture,
                   issues, suggestions, file_feedback, progress, result, raised, broke_at>>
    /\ UNCHANGED heap_vars
    /\ UNCHANGED ctx_vars
    /\ UNCHANGED gui_vars

\* analyze_project, lines 168-169: clear the flag, keep the callback
analyze_project_clear ==
    /\ cls = "ProjectAnalyzer"
    /\ pc = "idle"
    /\ \E cb \in BOOLEAN : has_callback' = cb
    /\ cancel_event' = FALSE
    /\ set_at' = IF cancel_event THEN Cleared ELSE NoPlace
    /\ pc' = "start"
    /\ UNCHANGED <<cls, root_exists, fs, generated, files, i, file_analysis, architecture, issues,
                   suggestions, file_feedback, progress, result, raised, broke_at>>
    /\ UNCHANGED heap_vars
    /\ UNCHANGED ctx_vars
    /\ UNCHANGED gui_vars

\* lines 171-178: the starting message, the enumeration, the empty dict
\* A dict that is kept and emptied by every run instead of being created.
ReusedDict(run) == 1

\* file_analysis = {}: the dict a run creates is a new object, which no earlier
\* run's result holds.
NewDict(run) == run

\* A write into the dict id, as seen through every returned result that holds
\* that dict.
WriteThrough(results, id, content) ==
    [k \in 1..Len(results) |->
        IF results[k].id = id
        THEN [results[k] EXCEPT !.value = [@ EXCEPT !.file_analysis = content]]
        ELSE results[k]]

analyze_project_start ==
    /\ cls = "ProjectAnalyzer"
    /\ pc = "start"
    /\ progress' = Notify(Msg("Starting project analysis..."))
    /\ files' = LET listed == _get_files(root_exists, Listing(fs, 1) \o generated)
                IN  [k \in 1..Len(listed) |-> listed[k].path]
    /\ file_analysis' = <<>>
    /\ runs' = runs + 1
    /\ fa_id' = NewDict(runs + 1)
    /\ returned' = WriteThrough(returned, NewDict(runs + 1), <<>>)
    /\ i' = 0
    /\ pc' = "loop"
    /\ UNCHANGED <<cls, root_exists, fs, generated, has_callback, cancel_event, architecture, issues,
                   suggestions, file_feedback, result, raised, broke_at, set_at>>
    /\ UNCHANGED ctx_vars
    /\ UNCHANGED gui_vars

\* A loop that never looks at the flag.
LoopNeverBreaks(flag) == FALSE

\* if self.cancel_event.is_set(): break
LoopBreaks(flag) == flag

\* An iteration that stores the file's record first and sends the message after.
analyze_project_check_after_file ==
    /\ cls = "ProjectAnalyzer"
    /\ pc = "loop"
    /\ IF i >= Len(files)
       THEN /\ pc' = "architecture"
            /\ UNCHANGED <<progress, broke_at, file_analysis, raised, returned>>
       ELSE IF LoopBreaks(cancel_event)
       THEN /\ pc' = "architecture"
            /\ broke_at' = i
            /\ UNCHANGED <<progress, file_analysis, raised, returned>>
       ELSE LET f == FileAt(files[i + 1])
            IN  IF AnalyzeFileRaises(f)
                THEN /\ raised' = f.err
                     /\ pc' = "raised"
                     /\ UNCHANGED <<progress, broke_at, file_analysis, returned>>
                ELSE /\ file_analysis' = DictSet(file_analysis, f.path, _analyze_file(f))
                     /\ returned' = WriteThrough(returned, fa_id,
                                                 DictSet(file_analysis, f.path, _analyze_file(f)))
                     /\ pc' = "file"
                     /\ progress' = Notify(FileMsg("Analyzing", PathName(files[i + 1]),
                                                   i + 1, Len(files)))
                     /\ UNCHANGED <<broke_at, raised>>
    /\ UNCHANGED <<cls, root_exists, fs, generated, has_callback, cancel_event, files, i,
                   architecture, issues, suggestions, file_feedback, result, set_at>>
    /\ UNCHANGED <<runs, fa_id>>
    /\ UNCHANGED ctx_vars
    /\ UNCHANGED gui_vars

\* lines 179-183: the next iteration's check of the flag and its message
analyze_project_check ==
    /\ cls = "ProjectAnalyzer"
    /\ pc = "loop"
    /\ IF i >= Len(files)
       THEN /\ pc' = "architecture"
            /\ UNCHANGED <<progress, broke_at>>
       ELSE IF LoopBreaks(cancel_event)
       THEN /\ pc' = "architecture"
            /\ broke_at' = i
            /\ UNCHANGED progress
       ELSE /\ pc' = "file"
            /\ progress' = Notify(FileMsg("Analyzing", PathName(files[i + 1]), i + 1, Len(files)))
            /\ UNCHANGED broke_at
    /\ UNCHANGED <<cls, root_exists, fs, generated, has_callback, cancel_event, files, i, file_analysis,
                   architecture, issues, suggestions, file_feedback, result, raised, set_at>>
    /\ UNCHANGED heap_vars
    /\ UNCHANGED ctx_vars
    /\ UNCHANGED gui_vars

\* lines 184-185: the record of the file, or the exception of stat()
analyze_project_file ==
    /\ cls = "ProjectAnalyzer"
    /\ pc = "file"
    /\ LET f == FileAt(files[i + 1])
       IN  IF AnalyzeFileRaises(f)
           THEN /\ raised' = f.err
                /\ pc' = "raised"
                /\ UNCHANGED <<file_analysis, i, returned>>
           ELSE /\ file_analysis' = DictSet(file_analysis, f.path, _analyze_file(f))
                /\ returned' = WriteThrough(returned, fa_id,
                                            DictSet(file_analysis, f.path, _analyze_file(f)))
                /\ i' = i + 1
                /\ pc' = "loop"
                /\ UNCHANGED raised
    /\ UNCHANGED <<cls, root_exists, fs, generated, has_callback, cancel_event, files, architecture,
                   issues, suggestions, file_feedback, progress, result, broke_at, set_at>>
    /\ UNCHANGED <<runs, fa_id>>
    /\ UNCHANGED ctx_vars
    /\ UNCHANGED gui_vars

\* lines 187-190
analyze_project_architecture ==
    /\ cls = "ProjectAnalyzer"
    /\ pc = "architecture"
    /\ progress' = Notify(Msg("Analyzing project architecture..."))
    /\ architecture' = _analyze_architecture(file_analysis)
    /\ pc' = "issues"
    /\ UNCHANGED <<cls, root_exists, fs, generated, has_callback, cancel_event, files, i, file_analysis,
                   issues, suggestions, file_feedback, result, raised, broke_at, set_at>>
    /\ UNCHANGED heap_vars
    /\ UNCHANGED ctx_vars
    /\ UNCHANGED gui_vars

\* lines 192-195
analyze_project_issues ==
    /\ cls = "ProjectAnalyzer"
    /\ pc = "issues"
    /\ progress' = Notify(Msg("Detecting potential issues..."))
    /\ issues' = _detect_issues(file_analysis)
    /\ pc' = "suggestions"
    /\ UNCHANGED <<cls, root_exists, fs, generated, has_callback, cancel_event, files, i, file_analysis,
                   architecture, suggestions, file_feedback, result, raised, broke_at, set_at>>
    /\ UNCHANGED heap_vars
    /\ UNCHANGED ctx_vars
    /\ UNCHANGED gui_vars

\* lines 197-200
analyze_project_suggestions ==
    /\ cls = "ProjectAnalyzer"
    /\ pc = "suggestions"
    /\ progress' = Notify(Msg("Generating improvement suggestions..."))
    /\ suggestions' = _generate_suggestions(file_analysis, architecture, issues)
    /\ pc' = "feedback"
    /\ UNCHANGED <<cls, root_exists, fs, generated, has_callback, cancel_event, files, i, file_analysis,
                   architecture, issues, file_feedback, result, raised, broke_at, set_at>>
    /\ UNCHANGED heap_vars
    /\ UNCHANGED ctx_vars
    /\ UNCHANGED gui_vars

\* lines 202-205
analyze_project_feedback ==
    /\ cls = "ProjectAnalyzer"
    /\ pc = "feedback"
    /\ progress' = Notify(Msg("Creating file-specific feedback..."))
    /\ file_feedback' = _generate_file_feedback(file_analysis)
    /\ pc' = "final"
    /\ UNCHANGED <<cls, root_exists, fs, generated, has_callback, cancel_event, files, i, file_analysis,
                   architecture, issues, suggestions, result, raised, broke_at, set_at>>
    /\ UNCHANGED heap_vars
    /\ UNCHANGED ctx_vars
    /\ UNCHANGED gui_vars

\* A terminal message that ignores the flag.
FinalMessageAlwaysCompleted(flag) == Msg("Analysis completed")

\* The terminal message of analyze_project, by the flag at that moment.
FinalMessage(flag) == IF flag THEN Msg("Analysis cancelled") ELSE Msg("Analysis completed")

\* lines 213-220: the dict analyze_project returns
AnalysisResult(fa, arch, iss, sugg, feedback) ==
    [file_analysis |-> fa,
     architecture |-> arch,
     issues |-> iss,
     suggestions |-> sugg,
     file_feedback |-> feedback,
     summary |-> _create_summary(fa, arch, iss)]

\* lines 207-220: the terminal message and the returned bundle
analyze_project_return ==
    /\ cls = "ProjectAnalyzer"
    /\ pc = "final"
    /\ progress' = Notify(FinalMessage(cancel_event))
    /\ result' = AnalysisResult(file_analysis, architecture, issues, suggestions,
                                file_feedback)
    /\ returned' = Append(returned,
                          [id |-> fa_id,
                           value |-> AnalysisResult(file_analysis, architecture, issues,
                                                    suggestions, file_feedback),
                           at_return |-> AnalysisResult(file_analysis, architecture, issues,
                                                        suggestions, file_feedback),
                           cancelled |-> set_at \notin {NoPlace, Cleared}])
    /\ pc' = "done"
    /\ UNCHANGED <<cls, root_exists, fs, generated, has_callback, cancel_event, files, i, file_analysis,
                   architecture, issues, suggestions, file_feedback, raised, broke_at, set_at>>
    /\ UNCHANGED <<runs, fa_id>>
    /\ UNCHANGED ctx_vars
    /\ UNCHANGED gui_vars

\* scan_directory, lines 16-17
scan_directory_clear ==
    /\ cls = "ProjectScanner"
    /\ pc = "idle"
    /\ \E cb \in BOOLEAN : has_callback' = cb
    /\ cancel_event' = FALSE
    /\ set_at' = IF cancel_event THEN Cleared ELSE NoPlace
    /\ pc' = "start"
    /\ UNCHANGED <<cls, root_exists, fs, generated, files, i, file_analysis, architecture, issues,
                   suggestions, file_feedback, progress, result, raised, broke_at>>
    /\ UNCHANGED heap_vars
    /\ UNCHANGED ctx_vars
    /\ UNCHANGED gui_vars

\* lines 19-20
scan_directory_start ==
    /\ cls = "ProjectScanner"
    /\ pc = "start"
    /\ files' = LET listed == _get_files(root_exists, Listing(fs, 1) \o generated)
                IN  [k \in 1..Len(listed) |-> listed[k].path]
    /\ file_analysis' = <<>>
    /\ i' = 0
    /\ pc' = "loop"
    /\ UNCHANGED <<cls, root_exists, fs, generated, has_callback, cancel_event, architecture, issues,
                   suggestions, file_feedback, progress, result, raised, broke_at, set_at>>
    /\ UNCHANGED heap_vars
    /\ UNCHANGED ctx_vars
    /\ UNCHANGED gui_vars

\* lines 22-27
scan_directory_check ==
    /\ cls = "ProjectScanner"
    /\ pc = "loop"
    /\ IF i >= Len(files)
       THEN /\ pc' = "final"
            /\ UNCHANGED <<progress, broke_at>>
       ELSE IF LoopBreaks(cancel_event)
       THEN /\ pc' = "final"
            /\ broke_at' = i
            /\ UNCHANGED progress
       ELSE /\ pc' = "file"
            /\ progress' = Notify(FileMsg("Scanning", PathName(files[i + 1]), i + 1, Len(files)))
            /\ UNCHANGED broke_at
    /\ UNCHANGED <<cls, root_exists, fs, generated, has_callback, cancel_event, files, i, file_analysis,
                   architecture, issues, suggestions, file_feedback, result, raised, set_at>>
    /\ UNCHANGED heap_vars
    /\ UNCHANGED ctx_vars
    /\ UNCHANGED gui_vars

\* lines 29-30
scan_directory_file ==
    /\ cls = "ProjectScanner"
    /\ pc = "file"
    /\ LET f == FileAt(files[i + 1])
       IN  IF AnalyzeFileRaises(f)
           THEN /\ raised' = f.err
                /\ pc' = "raised"
                /\ UNCHANGED <<file_analysis, i>>
           ELSE /\ file_analysis' = DictSet(file_analysis, f.path, Scanner_analyze_file(f))
                /\ i' = i + 1
                /\ pc' = "loop"
                /\ UNCHANGED raised
    /\ UNCHANGED <<cls, root_exists, fs, generated, has_callback, cancel_event, files, architecture,
                   issues, suggestions, file_feedback, progress, result, broke_at, set_at>>
    /\ UNCHANGED heap_vars
    /\ UNCHANGED ctx_vars
    /\ UNCHANGED gui_vars

\* The terminal message of scan_directory.
ScanFinalMessage(flag) == IF flag THEN Msg("Scan cancelled") ELSE Msg("Scan completed")

\* lines 32-38
scan_directory_return ==
    /\ cls = "ProjectScanner"
    /\ pc = "final"
    /\ progress' = Notify(ScanFinalMessage(cancel_event))
    /\ result' = file_analysis
    /\ pc' = "done"
    /\ UNCHANGED <<cls, root_exists, fs, generated, has_callback, cancel_event, files, i, file_analysis,
                   architecture, issues, suggestions, file_feedback, raised, broke_at, set_at>>
    /\ UNCHANGED heap_vars
    /\ UNCHANGED ctx_vars
    /\ UNCHANGED gui_vars


\* analyze_project called once more on the same analyzer, once the previous
\* call has returned or raised: the locals of the previous call are gone, the
\* flag stays as it is until the call clears it.
analyze_project_again ==
    /\ cls = "ProjectAnalyzer"
    /\ pc \in {"done", "raised"}
    /\ runs < MaxRuns
    /\ pc' = "idle"
    /\ files' = <<>>
    /\ i' = 0
    /\ file_analysis' = <<>>
    /\ architecture' = <<>>
    /\ issues' = <<>>
    /\ suggestions' = <<>>
    /\ file_feedback' = <<>>
    /\ progress' = <<>>
    /\ result' = <<>>
    /\ raised' = ""
    /\ broke_at' = -1
    /\ set_at' = NoPlace
    /\ UNCHANGED <<cls, root_exists, fs, generated, has_callback, cancel_event>>
    /\ UNCHANGED heap_vars
    /\ UNCHANGED ctx_vars
    /\ UNCHANGED gui_vars

\* reanalyze_project: a new ProjectAnalyzer on the same path, whose flag is
\* not set, runs analyze_project.
reanalyze_project ==
    /\ cls = "ProjectAnalyzer"
    /\ pc \in {"done", "raised"}
    /\ runs < MaxRuns
    /\ pc' = "idle"
    /\ cancel_event' = FALSE
    /\ files' = <<>>
    /\ i' = 0
    /\ file_analysis' = <<>>
    /\ architecture' = <<>>
    /\ issues' = <<>>
    /\ suggestions' = <<>>
    /\ file_feedback' = <<>>
    /\ progress' = <<>>
    /\ result' = <<>>
    /\ raised' = ""
    /\ broke_at' = -1
    /\ set_at' = NoPlace
    /\ UNCHANGED <<cls, root_exists, fs, generated, has_callback>>
    /\ UNCHANGED heap_vars
    /\ UNCHANGED ctx_vars
    /\ UNCHANGED gui_vars
\* The inputs of save_analysis_context: results of complete runs of
\* analyze_project over small trees, and project paths.
RECURSIVE AnalyzeAll(_)
AnalyzeAll(listed) ==
    IF Len(listed) = 0 THEN <<>>
    ELSE DictSet(AnalyzeAll(SubSeq(listed, 1, Len(listed) - 1)),
                 listed[Len(listed)].path, _analyze_file(listed[Len(listed)]))

CompleteRun(S) ==
    LET fa == AnalyzeAll(_get_files(TRUE, Listing(S, 1)))
        arch == _analyze_architecture(fa)
        iss == _detect_issues(fa)
    IN  AnalysisResult(fa, arch, iss, _generate_suggestions(fa, arch, iss),
                       _generate_file_feedback(fa))

SampleResults == {CompleteRun({}), CompleteRun({1, 3, 5, 9})}

ProjectPaths == {<<"/", "p", "/", "a", "p", "p">>, <<"/", "w", "/", "l", "i", "b">>}

SaveOutcomes == {"ok", "open_fails", "write_fails"}

\* How many members a failing write leaves behind.
PartialKept == 4

\* context_data for every input of save_analysis_context and every clock reading.
ContextTable ==
    [analysis_results \in SampleResults, project_path \in ProjectPaths, now \in 1..MaxSaves |->
        ContextData(analysis_results, project_path, now)]

InitCtx ==
    /\ context_file = NoFile
    /\ current_context = None
    /\ context_summary = None
    /\ clock = 1
    /\ last_op = "__init__"
    /\ ret = None
    /\ saves = <<>>
    /\ writer = 0

\* AnalysisContextManager(): a new manager over the same file (a new process)
AnalysisContextManager_init ==
    /\ last_op # "__init__"
    /\ current_context' = None
    /\ context_summary' = None
    /\ last_op' = "__init__"
    /\ ret' = None
    /\ UNCHANGED <<context_file, clock, saves, writer>>
    /\ UNCHANGED run_vars
    /\ UNCHANGED gui_vars

\* A save that binds the two fields before it opens the file.
save_analysis_context_assigns_first ==
    /\ Len(saves) < MaxSaves
    /\ \E analysis_results \in SampleResults, project_path \in ProjectPaths,
          outcome \in SaveOutcomes :
          LET context_data == ContextTable[analysis_results, project_path, clock]
          IN  /\ context_file' =
                    CASE outcome = "ok" -> Overwrite(context_file, json_dump(context_data))
                      [] outcome = "write_fails" ->
                            Overwrite(context_file,
                                      PartialWrite(json_dump(context_data), PartialKept))
                      [] OTHER -> context_file
              /\ current_context' = context_data
              /\ context_summary' = _create_context_summary(context_data)
              /\ saves' = Append(saves, [analysis_results |-> analysis_results,
                                          project_path |-> project_path, now |-> clock,
                                          outcome |-> outcome])
              /\ writer' = IF outcome = "open_fails" THEN writer ELSE Len(saves) + 1
    /\ clock' = clock + 1
    /\ last_op' = "save_analysis_context"
    /\ ret' = None
    /\ UNCHANGED run_vars
    /\ UNCHANGED gui_vars

\* save_analysis_context(analysis_results, project_path); the open or the
\* write may fail, and the except branch then only prints
save_analysis_context ==
    /\ Len(saves) < MaxSaves
    /\ \E analysis_results \in SampleResults, project_path \in ProjectPaths,
          outcome \in SaveOutcomes :
          LET context_data == ContextTable[analysis_results, project_path, clock]
          IN  /\ context_file' =
                    CASE outcome = "ok" -> Overwrite(context_file, json_dump(context_data))
                      [] outcome = "write_fails" ->
                            Overwrite(context_file,
                                      PartialWrite(json_dump(context_data), PartialKept))
                      [] OTHER -> context_file
              /\ current_context' = IF outcome = "ok" THEN context_data ELSE current_context
              /\ context_summary' = IF outcome = "ok"
                                    THEN _create_context_summary(context_data)
                                    ELSE context_summary
              /\ saves' = Append(saves, [analysis_results |-> analysis_results,
                                          project_path |-> project_path, now |-> clock,
                                          outcome |-> outcome])
              /\ writer' = IF outcome = "open_fails" THEN writer ELSE Len(saves) + 1
    /\ clock' = clock + 1
    /\ last_op' = "save_analysis_context"
    /\ ret' = None
    /\ UNCHANGED run_vars
    /\ UNCHANGED gui_vars

\* load_analysis_context()
load_analysis_context ==
    /\ last_op' = "load_analysis_context"
    /\ IF ~context_file.exists
       THEN /\ ret' = None
            /\ UNCHANGED <<current_context, context_summary>>
       ELSE IF JsonValid(context_file)
       THEN /\ current_context' = json_load(context_file)
            /\ context_summary' = _create_context_summary(json_load(context_file))
            /\ ret' = json_load(context_file)
       ELSE /\ ret' = None
            /\ UNCHANGED <<current_context, context_summary>>
    /\ UNCHANGED <<context_file, clock, saves, writer>>
    /\ UNCHANGED run_vars
    /\ UNCHANGED gui_vars

\* A clear that resets the fields and leaves the file on disk.
clear_context_keeps_file ==
    /\ current_context' = None
    /\ context_summary' = None
    /\ last_op' = "clear_context"
    /\ ret' = None
    /\ UNCHANGED <<context_file, clock, saves, writer>>
    /\ UNCHANGED run_vars
    /\ UNCHANGED gui_vars

\* clear_context()
clear_context ==
    /\ context_file' = NoFile
    /\ current_context' = None
    /\ context_summary' = None
    /\ last_op' = "clear_context"
    /\ ret' = None
    /\ writer' = 0
    /\ UNCHANGED <<clock, saves>>
    /\ UNCHANGED run_vars
    /\ UNCHANGED gui_vars

\* ----------------------------------------------------- generated source files

\* The source of one function whose body is its docstring, or of one without.
FunctionSource(documented) ==
    IF documented THEN <<"d", "e", "f", " ", "f", "(", "x", ")", ":", "\n", " ", " ", " ",
            " ", "'", "d", "'", "\n">> ELSE <<"d", "e", "f", " ", "g", "(", "x", ")", ":",
                    "\n", " ", " ", " ", " ", "p", "a", "s", "s", "\n">>

\* A comment line of n characters, its line break included; nothing for n < 2.
CommentLine(n) ==
    IF n < 2 THEN <<>> ELSE <<"#">> \o [k \in 1..(n - 2) |-> "-"] \o <<"\n">>

\* The text of a source file of d documented functions and then u functions
\* without docstring, under a leading comment that brings the text to length
\* characters (no comment when the functions alone are as long).
SourceText(d, u, length) ==
    LET body == Concat([k \in 1..(d + u) |-> FunctionSource(k <= d)])
    IN  CommentLine(length - Len(body)) \o body

\* What ast.walk yields for that text: the FunctionDef nodes, in order.
SourceTree(d, u, length) ==
    LET body == Concat([k \in 1..(d + u) |-> FunctionSource(k <= d)])
        first == IF length - Len(body) >= 2 THEN 2 ELSE 1
    IN  [k \in 1..(d + u) |->
            [kind |-> "FunctionDef", parent |-> 0, name |-> IF k <= d THEN "f" ELSE "g",
             line |-> first + 2 * (k - 1), names |-> <<>>, module |-> <<>>, op |-> "",
             nvalues |-> 0, doc |-> k <= d, args |-> <<"x">>, methods |-> <<>>,
             bases |-> <<>>]]

\* A readable source file at path holding that text.
SourceFile(path, d, u, length) ==
    [path |-> path, stat_ok |-> TRUE, size |-> Len(SourceText(d, u, length)),
     read_ok |-> TRUE, parse_ok |-> TRUE, err |-> "",
     text |-> SourceText(d, u, length), tree |-> SourceTree(d, u, length)]

\* Paths whose lowercased text holds none, one or several of the keywords of
\* _analyze_architecture.
KeywordPaths ==
    {<<"m", "a", "i", "n", ".", "p", "y">>, <<"t", "e", "s", "t", "s", "/", "t", "e", "s",
            "t", "_", "m", "a", "i", "n", ".", "p", "y">>, <<"t", "e", "s", "t", "_", "u",
                    "t", "i", "l", "s", ".", "p", "y">>, <<"s", "p", "e", "c", "_", "h", "e",
                            "l", "p", "e", "r", ".", "p", "y">>,
     <<"c", "o", "n", "f", "i", "g", "_", "t", "e", "s", "t", ".", "p", "y">>, <<"S", "e",
             "t", "t", "i", "n", "g", "s", ".", "p", "y">>, <<"a", "p", "p", "_", "c", "o",
                     "n", "f", "i", "g", ".", "p", "y">>, <<"n", "o", "t", "e", "s", ".", "p",
                             "y">>, <<"x", "_", "s", "p", "e", "c", ".", "p", "y">>}

\* Pairs of documented and undocumented function counts: no function, and the
\* ratios 0, 1/3, 1/2 and 1.
DocCounts == {<<0, 0>>, <<0, 1>>, <<1, 2>>, <<1, 1>>, <<1, 0>>}

\* Content lengths around the preview limit.
ContentLengths == {PreviewChars - 1, PreviewChars, PreviewChars + 1}

\* What one generated file varies in: its path, its functions, or its length
\* (length 0 leaves the text as short as its functions make it).
StageParams ==
    {[path |-> p, counts |-> <<0, 1>>, length |-> 0] : p \in KeywordPaths}
    \cup {[path |-> <<"m", "o", "d", ".", "p", "y">>, counts |-> c, length |-> 0] : c \in DocCounts}
    \cup {[path |-> <<"m", "o", "d", ".", "p",
            "y">>, counts |-> <<1, 1>>, length |-> n] : n \in ContentLengths}

\* The k-th file of a generated tree: it lies in the directory dk.
StageFile(k, p) ==
    SourceFile(<<"d">> \o IntChars(k) \o <<"/">> \o p.path, p.counts[1], p.counts[2], p.length)

\* The max_length arguments callers pass: below the margin, at it, between the
\* lengths of the stored prompts, and the default.
MaxLengths == {0, 50, TruncateMargin, 600, DefaultMaxLength}

\* A call of get_context_for_chat(max_length); ret holds the text returned
\* beside the argument, or None.
call_get_context_for_chat ==
    /\ \E max_length \in MaxLengths :
          ret' = IF current_context = None \/ DOMAIN current_context = {}
                 THEN None
                 ELSE [text |-> get_context_for_chat(max_length), max_length |-> max_length]
    /\ last_op' = "get_context_for_chat"
    /\ UNCHANGED <<context_file, current_context, context_summary, clock, saves, writer>>
    /\ UNCHANGED run_vars
    /\ UNCHANGED gui_vars

\* ------------------------------------------------------- the specifications

Init == InitRun /\ InitCtx /\ InitGui

Next ==
    \/ cancel_scan
    \/ analyze_project_clear
    \/ analyze_project_start
    \/ analyze_project_check
    \/ analyze_project_file
    \/ analyze_project_architecture
    \/ analyze_project_issues
    \/ analyze_project_suggestions
    \/ analyze_project_feedback
    \/ analyze_project_return
    \/ scan_directory_clear
    \/ scan_directory_start
    \/ scan_directory_check
    \/ scan_directory_file
    \/ scan_directory_return

\* Runs of analyze_project and scan_directory over every file system.
Spec == Init /\ [][Next]_vars

RerunInit == Init /\ cls = "ProjectAnalyzer" /\ Cardinality(fs) <= RerunFiles

RerunNext ==
    \/ cancel_scan
    \/ analyze_project_clear
    \/ analyze_project_start
    \/ analyze_project_check
    \/ analyze_project_file
    \/ analyze_project_architecture
    \/ analyze_project_issues
    \/ analyze_project_suggestions
    \/ analyze_project_feedback
    \/ analyze_project_return
    \/ analyze_project_again
    \/ reanalyze_project

\* Repeated runs of analyze_project over one unchanged file system.
RerunSpec == RerunInit /\ [][RerunNext]_vars

CtxInit == InitCtx /\ InitGui /\ InitRun /\ cls = "ProjectAnalyzer" /\ ~root_exists

CtxNext ==
    \/ AnalysisContextManager_init
    \/ save_analysis_context
    \/ load_analysis_context
    \/ clear_context

\* The context manager under every sequence of its calls.
CtxSpec == CtxInit /\ [][CtxNext]_vars

ChatNext ==
    \/ AnalysisContextManager_init
    \/ save_analysis_context
    \/ load_analysis_context
    \/ clear_context
    \/ call_get_context_for_chat

\* The context manager with the chat's requests for the stored prompt.
ChatSpec == CtxInit /\ [][ChatNext]_vars

\* An analyzer over a generated tree of up to StageFiles source files.
StageInit ==
    /\ InitCtx
    /\ InitGui
    /\ cls = "ProjectAnalyzer"
    /\ root_exists = TRUE
    /\ fs = {}
    /\ \E n \in 0..StageFiles : \E p \in [1..n -> StageParams] :
          generated = [k \in 1..n |-> StageFile(k, p[k])]
    /\ pc = "idle"
    /\ has_callback = FALSE
    /\ cancel_event = FALSE
    /\ files = <<>>
    /\ i = 0
    /\ file_analysis = <<>>
    /\ architecture = <<>>
    /\ issues = <<>>
    /\ suggestions = <<>>
    /\ file_feedback = <<>>
    /\ progress = <<>>
    /\ result = <<>>
    /\ raised = ""
    /\ broke_at = -1
    /\ set_at = NoPlace
    /\ runs = 0
    /\ fa_id = 0
    /\ returned = <<>>

StageNext ==
    \/ analyze_project_clear /\ ~has_callback'
    \/ analyze_project_start
    \/ analyze_project_check
    \/ analyze_project_file
    \/ analyze_project_architecture
    \/ analyze_project_issues
    \/ analyze_project_suggestions
    \/ analyze_project_feedback
    \/ analyze_project_return

\* Runs of analyze_project, without callback or cancellation, over generated trees.
StageSpec == StageInit /\ [][StageNext]_vars

\* ------------------------------------------- generated files with branching

\* The largest number of operands of a generated boolean expression.
MaxOperands == 3

\* The names the generated expressions combine.
OperandNames == <<"a", "b", "c", "d", "e", "f">>

\* What a generated file puts at one place: nothing, one of the statements the
\* complexity passes count, or an expression statement `a and b ...` / `a or b ...`.
NoConstruct == [kind |-> "none", op |-> "", nvalues |-> 0]

Constructs ==
    {NoConstruct}
    \cup {[kind |-> k, op |-> "", nvalues |-> 0] : k \in {"If", "For", "While", "Try"}}
    \cup {[kind |-> "BoolOp", op |-> o, nvalues |-> n] : o \in {"And", "Or"}, n \in 2..MaxOperands}

\* The indentation of a statement n blocks deep.
Indent(n) == [k \in 1..(4 * n) |-> " "]

\* The source lines of a construct, n blocks deep.
ConstructText(c, n) ==
    CASE c.kind = "If" -> Indent(n) \o <<"i", "f", " ", "a", ":",
            "\n">> \o Indent(n + 1) \o <<"p", "a", "s", "s", "\n">>
      [] c.kind = "For" -> Indent(n) \o <<"f", "o", "r", " ", "a", " ", "i", "n", " ", "b",
              ":", "\n">> \o Indent(n + 1) \o <<"p", "a", "s", "s", "\n">>
      [] c.kind = "While" -> Indent(n) \o <<"w", "h", "i", "l", "e", " ", "a", ":",
              "\n">> \o Indent(n + 1) \o <<"p", "a", "s", "s", "\n">>
      [] c.kind = "Try" ->
            Indent(n) \o <<"t", "r", "y", ":", "\n">> \o Indent(n + 1) \o <<"p", "a", "s",
                    "s", "\n">>
            \o Indent(n) \o <<"e", "x", "c", "e", "p", "t", " ", "E", ":",
                    "\n">> \o Indent(n + 1) \o <<"p", "a", "s", "s", "\n">>
      [] c.kind = "BoolOp" ->
            Indent(n) \o Join(IF c.op = "And" THEN <<" ", "a", "n", "d", " ">> ELSE <<" ",
                    "o", "r", " ">>,
                              [k \in 1..c.nvalues |-> <<OperandNames[k]>>]) \o <<"\n">>
      [] OTHER -> <<>>

\* How many lines that text has.
ConstructLines(c) ==
    CASE c.kind \in {"If", "For", "While"} -> 2
      [] c.kind = "Try" -> 4
      [] c.kind = "BoolOp" -> 1
      [] OTHER -> 0

\* The text of a source file: the construct outer at module level, then a
\* function f that holds the construct inner, directly (nesting 1) or inside a
\* function g of its own (nesting 2).
BranchText(outer, inner, nesting) ==
    ConstructText(outer, 0)
    \o <<"d", "e", "f", " ", "f", "(", "a", ",", " ", "b", ",", " ", "c", ")", ":", "\n">>
    \o (IF nesting = 2 THEN Indent(1) \o <<"d", "e", "f", " ", "g", "(", ")", ":", "\n">> ELSE <<>>)
    \o ConstructText(inner, nesting)
    \o Indent(nesting) \o <<"r", "e", "t", "u", "r", "n", " ", "a", "\n">>

\* A node of a generated tree that is not a function.
ConstructNode(c, parent, line) ==
    [kind |-> c.kind, parent |-> parent, name |-> "", line |-> line, names |-> <<>>,
     module |-> <<>>, op |-> c.op, nvalues |-> c.nvalues, doc |-> FALSE, args |-> <<>>,
     methods |-> <<>>, bases |-> <<>>]

\* A function node of a generated tree.
DefNode(name, parent, line, args) ==
    [kind |-> "FunctionDef", parent |-> parent, name |-> name, line |-> line, names |-> <<>>,
     module |-> <<>>, op |-> "", nvalues |-> 0, doc |-> FALSE, args |-> args,
     methods |-> <<>>, bases |-> <<>>]

\* What ast.walk yields for that text, breadth first: a statement of the module
\* before f, the expression of an expression statement one level below its
\* statement, hence after f; then g, then the construct inside the functions.
BranchTree(outer, inner, nesting) ==
    LET f_line == ConstructLines(outer) + 1
        f_pos == IF outer.kind \in BranchKinds THEN 2 ELSE 1
        g_pos == IF outer.kind = "none" THEN 2 ELSE 3
        f_node == DefNode("f", 0, f_line, <<"a", "b", "c">>)
    IN  (IF outer.kind \in BranchKinds THEN <<ConstructNode(outer, 0, 1)>> ELSE <<>>)
        \o <<f_node>>
        \o (IF outer.kind = "BoolOp" THEN <<ConstructNode(outer, 0, 1)>> ELSE <<>>)
        \o (IF nesting = 2 THEN <<DefNode("g", f_pos, f_line + 1, <<>>)>> ELSE <<>>)
        \o (IF inner.kind = "none" THEN <<>>
            ELSE <<ConstructNode(inner, IF nesting = 2 THEN g_pos ELSE f_pos,
                                 f_line + nesting)>>)

\* A readable source file b.py holding that text.
BranchFile(outer, inner, nesting) ==
    [path |-> <<"b", ".", "p", "y">>, stat_ok |-> TRUE, size |-> Len(BranchText(outer, inner, nesting)),
     read_ok |-> TRUE, parse_ok |-> TRUE, err |-> "",
     text |-> BranchText(outer, inner, nesting), tree |-> BranchTree(outer, inner, nesting)]

\* An analyzer over a tree that holds one generated file with branching.
BranchInit ==
    /\ InitCtx
    /\ InitGui
    /\ cls = "ProjectAnalyzer"
    /\ root_exists = TRUE
    /\ fs = {}
    /\ \E outer \in Constructs, inner \in Constructs, nesting \in 1..2 :
          generated = <<BranchFile(outer, inner, nesting)>>
    /\ pc = "idle"
    /\ has_callback = FALSE
    /\ cancel_event = FALSE
    /\ files = <<>>
    /\ i = 0
    /\ file_analysis = <<>>
    /\ architecture = <<>>
    /\ issues = <<>>
    /\ suggestions = <<>>
    /\ file_feedback = <<>>
    /\ progress = <<>>
    /\ result = <<>>
    /\ raised = ""
    /\ broke_at = -1
    /\ set_at = NoPlace
    /\ runs = 0
    /\ fa_id = 0
    /\ returned = <<>>

\* Runs of analyze_project, without callback or cancellation, over one
\* generated file with branching.
BranchSpec == BranchInit /\ [][StageNext]_vars

\* ------------------------------------------ the suggestion rules on their own

\* The longest list of an architecture summary or issue set handed to
\* _generate_suggestions.
MaxListed == 1

\* A list of n entries.
Listed(n) == [k \in 1..n |-> [path |-> <<"x", ".", "p", "y">>, detail |-> 0]]

\* Average file sizes at and around the threshold of the performance rule.
AverageSizes ==
    {Ratio(0, 1), Ratio(LargeAverageSize, 1), Ratio(2 * LargeAverageSize + 1, 2),
     Ratio(LargeAverageSize + 1, 1)}

\* File counts at and around the threshold of the maintainability rule.
FileCounts == {0, ManyFiles, ManyFiles + 1}

\* Architecture summaries: every combination of what the rules look at.
Architectures ==
    {[_analyze_architecture(<<>>) EXCEPT
         !.main_modules = [k \in 1..m |-> <<"m", "a", "i", "n", ".", "p", "y">>],
         !.test_files = [k \in 1..t |-> <<"t", "e", "s", "t", "_", "x", ".", "p", "y">>],
         !.avg_file_size = a,
         !.total_files = n] :
       m \in 0..MaxListed, t \in 0..MaxListed, a \in AverageSizes, n \in FileCounts}

\* Issue sets: every combination of empty and non-empty lists.
IssueSets ==
    {[high_complexity_files |-> Listed(h), missing_docstrings |-> Listed(d),
      unused_imports |-> Listed(u), large_files |-> Listed(l), potential_bugs |-> <<>>] :
       h \in 0..MaxListed, d \in 0..MaxListed, u \in 0..MaxListed, l \in 0..MaxListed}

\* A call of _generate_suggestions(file_analysis, architecture, issues); the
\* arguments stay in file_analysis, architecture and issues, the value returned
\* in suggestions.
call_generate_suggestions ==
    /\ cls = "ProjectAnalyzer"
    /\ pc = "idle"
    /\ \E fa \in {<<>>, CompleteRun({1, 3, 5, 9}).file_analysis},
          arch \in Architectures, iss \in IssueSets :
          /\ file_analysis' = fa
          /\ architecture' = arch
          /\ issues' = iss
          /\ suggestions' = _generate_suggestions(fa, arch, iss)
    /\ pc' = "suggested"
    /\ UNCHANGED <<cls, root_exists, fs, generated, has_callback, cancel_event, files, i,
                   file_feedback, progress, result, raised, broke_at, set_at>>
    /\ UNCHANGED heap_vars
    /\ UNCHANGED ctx_vars
    /\ UNCHANGED gui_vars

SuggestInit == InitCtx /\ InitGui /\ InitRun /\ cls = "ProjectAnalyzer" /\ ~root_exists

\* _generate_suggestions applied to every architecture summary and issue set.
SuggestSpec == SuggestInit /\ [][call_generate_suggestions]_vars

\* ------------------------------------------------------------- the report

\* The caps of format_analysis_results
ModulesShown == 5
IssuesShown == 10
FeedbackShown == 10

\* A list of modules shown whole, however long.
ShownModulesUncapped(modules) == Join(<<",", " ">>, modules)

\* ', '.join(modules[:5]) and the '...' that follows a longer list
ShownModules(modules) ==
    Join(<<",", " ">>, SliceTo(modules, ModulesShown))
    \o (IF Len(modules) > ModulesShown THEN <<".", ".", ".">> ELSE <<>>)

\* The lines of the summary block.
ReportSummary(summary) ==
    <<<<"#", "#", " ", "S", "u", "m", "m", "a", "r", "y", "\n">>,
      <<"-", " ", "*", "*", "T", "o", "t", "a", "l", " ", "F", "i", "l", "e", "s", ":", "*",
              "*", " ">> \o IntChars(summary.total_files) \o <<"\n">>,
      <<"-", " ", "*", "*", "T", "o", "t", "a", "l", " ", "L", "i", "n", "e", "s", ":", "*",
              "*", " ">> \o IntChars(summary.total_lines) \o <<"\n">>,
      <<"-", " ", "*", "*", "L", "a", "n", "g", "u", "a", "g", "e", "s", ":", "*", "*", " ">>
          \o Join(<<",", " ">>, [k \in 1..Len(summary.languages) |->
                              LabelChars(summary.languages[k].key) \o <<":", " ">>
                              \o IntChars(summary.languages[k].value)]) \o <<"\n">>,
      <<"-", " ", "*", "*", "I", "s", "s", "u", "e", "s", " ", "F", "o", "u", "n", "d", ":",
              "*", "*", " ">> \o IntChars(summary.issues_count) \o <<"\n">>,
      <<"-", " ", "*", "*", "M", "a", "i", "n", " ", "M", "o", "d", "u", "l", "e", "s", ":",
              "*", "*", " ">> \o IntChars(summary.main_modules) \o <<"\n">>,
      <<"-", " ", "*", "*", "T", "e", "s", "t", " ", "C", "o", "v", "e", "r", "a", "g", "e",
              ":", "*", "*", " ">> \o PercentChars(summary.test_coverage) \o <<"\n", "\n">>>>

\* The lines of the architecture block: a line for each list that is not empty.
ReportArchitecture(arch) ==
    <<<<"#", "#", " ", "A", "r", "c", "h", "i", "t", "e", "c", "t", "u", "r", "e", " ", "O",
            "v", "e", "r", "v", "i", "e", "w", "\n">>>>
    \o (IF Len(arch.main_modules) > 0
        THEN <<<<"*", "*", "M", "a", "i", "n", " ", "M", "o", "d", "u", "l", "e", "s", ":",
                "*", "*", " ">> \o ShownModules(arch.main_modules) \o <<"\n">>>>
        ELSE <<>>)
    \o (IF Len(arch.utils_modules) > 0
        THEN <<<<"*", "*", "U", "t", "i", "l", "i", "t", "y", " ", "M", "o", "d", "u", "l",
                "e", "s", ":", "*", "*", " ">> \o ShownModules(arch.utils_modules) \o <<"\n">>>>
        ELSE <<>>)
    \o (IF Len(arch.test_files) > 0
        THEN <<<<"*", "*", "T", "e", "s", "t", " ", "F", "i", "l", "e", "s", ":", "*", "*",
                " ">> \o IntChars(Len(arch.test_files)) \o <<"\n">>>>
        ELSE <<>>)
    \o (IF Len(arch.config_files) > 0
        THEN <<<<"*", "*", "C", "o", "n", "f", "i", "g", "u", "r", "a", "t", "i", "o", "n",
                " ", "F", "i", "l", "e", "s", ":", "*", "*", " ">> \o Join(<<",",
                        " ">>, arch.config_files) \o <<"\n", "\n">>>>
        ELSE <<>>)

\* The lines of one category of the issues block.
ReportIssues(category, issue_list) ==
    IF Len(issue_list) = 0 THEN <<>>
    ELSE <<<<"#", "#", "#", " ">> \o category.title \o <<"\n">>>>
         \o [k \in 1..Len(SliceTo(issue_list, IssuesShown)) |->
                <<"-", " ">> \o IssueText(category.key, issue_list[k]) \o <<"\n">>]
         \o (IF Len(issue_list) > IssuesShown
             THEN <<<<"-", " ", ".", ".", ".", " ", "a", "n", "d",
                     " ">> \o IntChars(Len(issue_list) - IssuesShown) \o <<" ", "m", "o", "r",
                             "e", "\n">>>>
             ELSE <<>>)
         \o <<<<"\n">>>>

\* The suggestion categories in the order of the suggestions dict, with
\* category.title()
SuggestionCategories ==
    <<[key |-> "architecture", title |-> <<"A", "r", "c", "h", "i", "t", "e", "c", "t", "u",
            "r", "e">>],
      [key |-> "code_quality", title |-> <<"C", "o", "d", "e", "_", "Q", "u", "a", "l", "i",
              "t", "y">>],
      [key |-> "performance", title |-> <<"P", "e", "r", "f", "o", "r", "m", "a", "n", "c", "e">>],
      [key |-> "maintainability", title |-> <<"M", "a", "i", "n", "t", "a", "i", "n", "a",
              "b", "i", "l", "i", "t", "y">>]>>

\* The lines of one category of the suggestions block; a bullet holds its suggestion.
ReportSuggestions(category, suggestion_list) ==
    IF Len(suggestion_list) = 0 THEN <<>>
    ELSE <<[heading |-> <<"#", "#", "#", " ">> \o category.title \o <<"\n">>]>>
         \o [k \in 1..Len(suggestion_list) |-> [bullet |-> suggestion_list[k]]]
         \o <<[heading |-> <<"\n">>]>>

\* The feedback block: the feedback of the first 10 files, then the count of the rest.
ReportFeedback(feedback) ==
    IF Len(feedback) = 0 THEN <<>>
    ELSE <<[heading |-> <<"#", "#", " ", "F", "i", "l", "e", "-", "S", "p", "e", "c", "i",
            "f", "i", "c", " ", "F", "e", "e", "d", "b", "a", "c", "k", "\n">>]>>
         \o [k \in 1..Len(SliceTo(feedback, FeedbackShown)) |-> [feedback |-> feedback[k].value]]
         \o (IF Len(feedback) > FeedbackShown
             THEN <<[heading |-> <<".", ".", ".", " ", "a", "n", "d",
                     " ">> \o IntChars(Len(feedback) - FeedbackShown)
                                 \o <<" ", "m", "o", "r", "e", " ", "f", "i", "l", "e", "s",
                                         " ", "a", "n", "a", "l", "y", "z", "e", "d", "\n">>]>>
             ELSE <<>>)

\* format_analysis_results(results): the report, as its blocks in order, each
\* block as its lines in order.
format_analysis_results(results) ==
    [title |-> <<<<"#", " ", "P", "r", "o", "j", "e", "c", "t", " ", "A", "n", "a", "l", "y",
            "s", "i", "s", " ", "R", "e", "p", "o", "r", "t", "\n", "\n">>>>,
     summary |-> ReportSummary(results.summary),
     architecture |-> ReportArchitecture(results.architecture),
     issues |->
        IF \A k \in 1..Len(IssueCategories) : Len(results.issues[IssueCategories[k].key]) = 0
        THEN <<>>
        ELSE <<<<"#", "#", " ", "I", "s", "s", "u", "e", "s", " ", "D", "e", "t", "e", "c",
                "t", "e", "d", "\n">>>>
             \o Concat([k \in 1..Len(IssueCategories) |->
                           ReportIssues(IssueCategories[k],
                                        results.issues[IssueCategories[k].key])]),
     suggestions |->
        IF \A k \in 1..Len(SuggestionCategories) :
              Len(results.suggestions[SuggestionCategories[k].key]) = 0
        THEN <<>>
        ELSE <<[heading |-> <<"#", "#", " ", "I", "m", "p", "r", "o", "v", "e", "m", "e", "n",
                "t", " ", "S", "u", "g", "g", "e", "s", "t", "i", "o", "n", "s", "\n">>]>>
             \o Concat([k \in 1..Len(SuggestionCategories) |->
                           ReportSuggestions(SuggestionCategories[k],
                                             results.suggestions[SuggestionCategories[k].key])]),
     file_feedback |-> ReportFeedback(results.file_feedback)]

\* The longest list of modules of a formatted result.
MaxModules == 6

\* n module paths.
ModulePaths(stem, n) == [k \in 1..n |-> stem \o IntChars(k) \o <<".", "p", "y">>]

\* The results formatted: those of a run, with every length of the lists of
\* the architecture block.
FormattedResults ==
    {LET run == CompleteRun({1, 3, 5, 9})
         arch == [run.architecture EXCEPT
                     !.main_modules = ModulePaths(<<"m", "a", "i", "n">>, m),
                     !.utils_modules = ModulePaths(<<"u", "t", "i", "l">>, u),
                     !.test_files = ModulePaths(<<"t", "e", "s", "t">>, t),
                     !.config_files = ModulePaths(<<"c", "o", "n", "f", "i", "g">>, c)]
     IN  AnalysisResult(run.file_analysis, arch, run.issues, run.suggestions,
                        run.file_feedback) :
       m \in 0..MaxModules, u \in 0..MaxModules, t \in 0..1, c \in 0..1}

\* A call of format_analysis_results(results); result holds the argument,
\* output the report.
call_format_analysis_results ==
    /\ cls = "ProjectAnalyzer"
    /\ pc = "idle"
    /\ \E results \in FormattedResults :
          /\ result' = results
          /\ output' = format_analysis_results(results)
    /\ pc' = "formatted"
    /\ UNCHANGED <<cls, root_exists, fs, generated, has_callback, cancel_event, files, i,
                   file_analysis, architecture, issues, suggestions, file_feedback, progress,
                   raised, broke_at, set_at>>
    /\ UNCHANGED heap_vars
    /\ UNCHANGED ctx_vars
    /\ UNCHANGED worker_vars
    /\ UNCHANGED typing_vars

FormatInit == InitCtx /\ InitGui /\ InitRun /\ cls = "ProjectAnalyzer" /\ ~root_exists

\* format_analysis_results applied to results with lists of every length.
FormatSpec == FormatInit /\ [][call_format_analysis_results]_vars

\* ------------------------------------------------------- the analysis worker

\* The most files of a tree the worker analyzes.
WorkerFiles == 2

\* A cancel() that also stops the analyzer.
AnalysisWorker_cancel_stops_analyzer ==
    /\ cancelled' = TRUE
    /\ cancel_event' = TRUE
    /\ set_at' = IF cancel_event THEN set_at ELSE [pc |-> pc, i |-> i]
    /\ UNCHANGED <<cls, root_exists, fs, generated, pc, has_callback, files, i, file_analysis,
                   architecture, issues, suggestions, file_feedback, progress, result,
                   raised, broke_at>>
    /\ UNCHANGED heap_vars
    /\ UNCHANGED ctx_vars
    /\ UNCHANGED <<output, worker, seen_cancelled, signals>>
    /\ UNCHANGED typing_vars

\* AnalysisWorker.cancel(), from the dialog's Cancel button at any time
AnalysisWorker_cancel ==
    /\ cancelled' = TRUE
    /\ UNCHANGED run_vars
    /\ UNCHANGED ctx_vars
    /\ UNCHANGED <<output, worker, seen_cancelled, signals>>
    /\ UNCHANGED typing_vars

\* AnalysisWorker.run() up to the call of analyze_project: a new analyzer on
\* the project path
AnalysisWorker_run_begin ==
    /\ worker = "created"
    /\ worker' = "running"
    /\ UNCHANGED run_vars
    /\ UNCHANGED ctx_vars
    /\ UNCHANGED <<output, cancelled, seen_cancelled, signals>>
    /\ UNCHANGED typing_vars

\* analyze_project(lambda msg: self.progress.emit(msg)) begins: the worker
\* always passes a callback
AnalysisWorker_run_call ==
    /\ worker = "running"
    /\ analyze_project_clear
    /\ has_callback'

\* AnalysisWorker.run() after analyze_project returned or raised: the check
\* of self.cancelled and the signal
AnalysisWorker_run_end ==
    /\ worker = "running"
    /\ pc \in {"done", "raised"}
    /\ seen_cancelled' = cancelled
    /\ signals' =
          IF cancelled THEN signals
          ELSE IF pc = "done" THEN Append(signals, [signal |-> "finished", results |-> result])
          ELSE Append(signals, [signal |-> "error", message |-> raised])
    /\ worker' = "returned"
    /\ UNCHANGED run_vars
    /\ UNCHANGED ctx_vars
    /\ UNCHANGED <<output, cancelled>>
    /\ UNCHANGED typing_vars

WorkerInit == Init /\ cls = "ProjectAnalyzer" /\ Cardinality(fs) <= WorkerFiles

WorkerNext ==
    \/ AnalysisWorker_cancel
    \/ AnalysisWorker_run_begin
    \/ AnalysisWorker_run_call
    \/ analyze_project_start
    \/ analyze_project_check
    \/ analyze_project_file
    \/ analyze_project_architecture
    \/ analyze_project_issues
    \/ analyze_project_suggestions
    \/ analyze_project_feedback
    \/ analyze_project_return
    \/ AnalysisWorker_run_end

\* An AnalysisWorker thread and the Cancel button of its dialog.
WorkerSpec == WorkerInit /\ [][WorkerNext]_vars

\* ------------------------------------------------------ the typing worker

\* How many chunks of output a process writes at most.
MaxChunks == 2

\* self.new_char.emit(text)
NewChar(text) == [signal |-> "new_char", text |-> text]

\* self.finished_signal.emit()
FinishedSignal == [signal |-> "finished_signal", text |-> ""]

\* process.terminate(): the signal reaches a process that has not exited
Terminated(c) == IF c = "running" THEN "dying" ELSE c

\* self._emit_filtered(text): one emission per character clean_output keeps,
\* none when it keeps nothing
EmitFiltered(n) == [k \in 1..n |-> NewChar("char")]

\* stop_generation(), from the window's thread at any time
OllamaTypingWorker_stop_generation ==
    /\ stop_flag' = TRUE
    /\ child' = IF process # "None" THEN Terminated(child) ELSE child
    /\ UNCHANGED <<typing, os_name, process, pending, written, overdue, emitted>>
    /\ UNCHANGED run_vars
    /\ UNCHANGED ctx_vars
    /\ UNCHANGED <<output, worker_vars>>

\* The process writes a chunk of output.
ChildWrites ==
    /\ child = "running"
    /\ written < MaxChunks
    /\ pending' = pending + 1
    /\ written' = written + 1
    /\ UNCHANGED <<typing, os_name, stop_flag, process, child, overdue, emitted>>
    /\ UNCHANGED run_vars
    /\ UNCHANGED ctx_vars
    /\ UNCHANGED <<output, worker_vars>>

\* The process exits, of itself or of the signal it was sent.
ChildExits ==
    /\ child \in {"running", "dying"}
    /\ child' = "exited"
    /\ UNCHANGED <<typing, os_name, stop_flag, process, pending, written, overdue, emitted>>
    /\ UNCHANGED run_vars
    /\ UNCHANGED ctx_vars
    /\ UNCHANGED <<output, worker_vars>>

\* The timeout of the loop that is running elapses.
TimeoutElapses ==
    /\ typing \in {"pty_loop", "pty_read", "pipe_loop", "pipe_read"}
    /\ ~overdue
    /\ overdue' = TRUE
    /\ UNCHANGED <<typing, os_name, stop_flag, process, child, pending, written, emitted>>
    /\ UNCHANGED run_vars
    /\ UNCHANGED ctx_vars
    /\ UNCHANGED <<output, worker_vars>>

\* run() up to the first loop: on posix the PTY and its process, which may
\* fail to start; elsewhere, and after such a failure, process is None
OllamaTypingWorker_run_begin ==
    /\ typing = "created"
    /\ \E name \in {"posix", "nt"}, started \in BOOLEAN :
          /\ os_name' = name
          /\ IF name = "posix" /\ started
             THEN /\ process' = "pty"
                  /\ child' = "running"
                  /\ typing' = "pty_loop"
             ELSE /\ typing' = "pipe_start"
                  /\ UNCHANGED <<process, child>>
    /\ UNCHANGED <<stop_flag, pending, written, overdue, emitted>>
    /\ UNCHANGED run_vars
    /\ UNCHANGED ctx_vars
    /\ UNCHANGED <<output, worker_vars>>

\* The head of a pass of the loop of the PTY path: the stop request, then
\* the timeout
OllamaTypingWorker_run_pty_check ==
    /\ typing = "pty_loop"
    /\ IF stop_flag
       THEN /\ emitted' = Append(emitted, NewChar("[Generation Stopped]"))
            /\ child' = Terminated(child)
            /\ typing' = "finish"
       ELSE IF overdue
       THEN /\ emitted' = Append(emitted, NewChar("[Timeout]"))
            /\ child' = Terminated(child)
            /\ typing' = "finish"
       ELSE /\ typing' = "pty_read"
            /\ UNCHANGED <<emitted, child>>
    /\ UNCHANGED <<os_name, stop_flag, process, pending, written, overdue>>
    /\ UNCHANGED run_vars
    /\ UNCHANGED ctx_vars
    /\ UNCHANGED <<output, worker_vars>>

\* The rest of the pass: a chunk read and emitted, nothing to read yet, or
\* the end of the output of a process that has exited, where the loop breaks
\* or os.read raises and the except branch unbinds process
OllamaTypingWorker_run_pty_read ==
    /\ typing = "pty_read"
    /\ \/ /\ pending > 0
          /\ \E kept \in 0..1 : emitted' = emitted \o EmitFiltered(kept)
          /\ pending' = pending - 1
          /\ typing' = "pty_loop"
       \/ /\ pending = 0
          /\ child # "exited"
          /\ typing' = "pty_loop"
          /\ UNCHANGED <<emitted, pending>>
       \/ /\ pending = 0
          /\ child = "exited"
          /\ \E raises \in BOOLEAN : typing' = IF raises THEN "pipe_start" ELSE "finish"
          /\ UNCHANGED <<emitted, pending>>
    /\ UNCHANGED <<os_name, stop_flag, process, child, written, overdue>>
    /\ UNCHANGED run_vars
    /\ UNCHANGED ctx_vars
    /\ UNCHANGED <<output, worker_vars>>

\* The fallback: subprocess.Popen with a pipe, which may raise; start_time
\* is read anew
OllamaTypingWorker_run_popen ==
    /\ typing = "pipe_start"
    /\ \E started \in BOOLEAN :
          IF started
          THEN /\ process' = "pipe"
               /\ child' = "running"
               /\ pending' = 0
               /\ written' = 0
               /\ overdue' = FALSE
               /\ typing' = "pipe_loop"
          ELSE /\ typing' = "except"
               /\ UNCHANGED <<process, child, pending, written, overdue>>
    /\ UNCHANGED <<os_name, stop_flag, emitted>>
    /\ UNCHANGED run_vars
    /\ UNCHANGED ctx_vars
    /\ UNCHANGED <<output, worker_vars>>

\* The head of a pass of the loop of the PIPE path: the stop request, then
\* the timeout
OllamaTypingWorker_run_pipe_check ==
    /\ typing = "pipe_loop"
    /\ IF stop_flag
       THEN /\ emitted' = Append(emitted, NewChar("[Generation Stopped]"))
            /\ child' = Terminated(child)
            /\ typing' = "wait"
       ELSE IF overdue
       THEN /\ emitted' = Append(emitted, NewChar("[Timeout]"))
            /\ child' = Terminated(child)
            /\ typing' = "wait"
       ELSE /\ typing' = "pipe_read"
            /\ UNCHANGED <<emitted, child>>
    /\ UNCHANGED <<os_name, stop_flag, process, pending, written, overdue>>
    /\ UNCHANGED run_vars
    /\ UNCHANGED ctx_vars
    /\ UNCHANGED <<output, worker_vars>>

\* The rest of the pass: read(1) waits for a character, which it may fail
\* to decode, or for the end of the output of a process that has exited
OllamaTypingWorker_run_pipe_read ==
    /\ typing = "pipe_read"
    /\ \/ /\ pending > 0
          /\ pending' = pending - 1
          /\ \E raises \in BOOLEAN :
                IF raises
                THEN typing' = "except" /\ UNCHANGED emitted
                ELSE /\ \E kept \in 0..1 : emitted' = emitted \o EmitFiltered(kept)
                     /\ typing' = "pipe_loop"
       \/ /\ pending = 0
          /\ child = "exited"
          /\ typing' = "wait"
          /\ UNCHANGED <<emitted, pending>>
    /\ UNCHANGED <<os_name, stop_flag, process, child, written, overdue>>
    /\ UNCHANGED run_vars
    /\ UNCHANGED ctx_vars
    /\ UNCHANGED <<output, worker_vars>>

\* process.wait(timeout=10): TimeoutExpired when the process has not exited
\* by then, and then the kill and the message
OllamaTypingWorker_run_wait ==
    /\ typing = "wait"
    /\ IF child = "exited"
       THEN UNCHANGED <<child, emitted>>
       ELSE /\ child' = "dying"
            /\ emitted' = Append(emitted, NewChar("[Error] Process did not terminate cleanly"))
    /\ typing' = "finish"
    /\ UNCHANGED <<os_name, stop_flag, process, pending, written, overdue>>
    /\ UNCHANGED run_vars
    /\ UNCHANGED ctx_vars
    /\ UNCHANGED <<output, worker_vars>>

\* An except branch that reports the error and emits nothing else.
OllamaTypingWorker_run_except_reports_only ==
    /\ typing = "except"
    /\ emitted' = Append(emitted, NewChar("[Error]"))
    /\ typing' = "returned"
    /\ UNCHANGED <<os_name, stop_flag, process, child, pending, written, overdue>>
    /\ UNCHANGED run_vars
    /\ UNCHANGED ctx_vars
    /\ UNCHANGED <<output, worker_vars>>

\* The outer except branch: the error message, then finished_signal
OllamaTypingWorker_run_except ==
    /\ typing = "except"
    /\ emitted' = emitted \o <<NewChar("[Error]"), FinishedSignal>>
    /\ typing' = "returned"
    /\ UNCHANGED <<os_name, stop_flag, process, child, pending, written, overdue>>
    /\ UNCHANGED run_vars
    /\ UNCHANGED ctx_vars
    /\ UNCHANGED <<output, worker_vars>>

\* The last statement of the try block: finished_signal
OllamaTypingWorker_run_finish ==
    /\ typing = "finish"
    /\ emitted' = Append(emitted, FinishedSignal)
    /\ typing' = "returned"
    /\ UNCHANGED <<os_name, stop_flag, process, child, pending, written, overdue>>
    /\ UNCHANGED run_vars
    /\ UNCHANGED ctx_vars
    /\ UNCHANGED <<output, worker_vars>>

TypingInit == CtxInit

TypingNext ==
    \/ OllamaTypingWorker_stop_generation
    \/ ChildWrites
    \/ ChildExits
    \/ TimeoutElapses
    \/ OllamaTypingWorker_run_begin
    \/ OllamaTypingWorker_run_pty_check
    \/ OllamaTypingWorker_run_pty_read
    \/ OllamaTypingWorker_run_popen
    \/ OllamaTypingWorker_run_pipe_check
    \/ OllamaTypingWorker_run_pipe_read
    \/ OllamaTypingWorker_run_wait
    \/ OllamaTypingWorker_run_except
    \/ OllamaTypingWorker_run_finish

\* An OllamaTypingWorker thread, its process and the Stop button.
TypingSpec == TypingInit /\ [][TypingNext]_vars
\* ------------------------------------------------------------------ claims

AnalysisTerminal == {Msg("Analysis completed"), Msg("Analysis cancelled")}
ScanTerminal == {Msg("Scan completed"), Msg("Scan cancelled")}
Terminal == IF cls = "ProjectAnalyzer" THEN AnalysisTerminal ELSE ScanTerminal

\* The stage notices analyze_project emits between the loop and the terminal message.
StageNotices ==
    <<Msg("Analyzing project architecture..."), Msg("Detecting potential issues..."),
      Msg("Generating improvement suggestions..."), Msg("Creating file-specific feedback...")>>

IsPrefix(s, t) == Len(s) <= Len(t) /\ s = SubSeq(t, 1, Len(s))

\* C1: when cancel_scan sets the flag while analyze_project stands at the loop's
\* check with k of the n enumerated files analyzed (k < n), the run does not
\* raise, and once it has returned, file_analysis holds exactly the records of
\* those k files and the last progress message is 'Analysis cancelled'.
C1_CancelBetweenFiles ==
    (cls = "ProjectAnalyzer" /\ set_at.pc = "loop" /\ set_at.i < Len(files))
        => /\ pc # "raised"
           /\ pc = "done" =>
                /\ Len(result.file_analysis) = set_at.i
                /\ \A k \in 1..set_at.i : result.file_analysis[k].key = files[k]
                /\ has_callback => progress[Len(progress)] = Msg("Analysis cancelled")

\* A run over 5 files, cancelled at the check that follows the second file, has returned.
C1_Witness ==
    /\ cls = "ProjectAnalyzer"
    /\ pc = "done"
    /\ has_callback
    /\ Len(files) = 5
    /\ set_at = [pc |-> "loop", i |-> 2]

\* The messages the callback received after the loop took its break: those that
\* follow the starting message and the broke_at per-file messages.
AfterBreak == SubSeq(progress, broke_at + 2, Len(progress))

\* C2 as stated: after analyze_project has left the loop because the flag was
\* set, the only message it emits is the final 'cancelled' notice.
C2_OnlyCancelledAfterBreak ==
    (cls = "ProjectAnalyzer" /\ has_callback /\ broke_at >= 0)
        => AfterBreak \in {<<>>, <<Msg("Analysis cancelled")>>}

\* C2 amended: after analyze_project has left the loop because the flag was set
\* it emits no per-file message any more; it emits the four stage notices, in
\* order, and then the 'cancelled' notice, which is the last message of the run.
C2_StagesThenCancelled ==
    (cls = "ProjectAnalyzer" /\ has_callback /\ broke_at >= 0)
        => /\ IsPrefix(AfterBreak, StageNotices \o <<Msg("Analysis cancelled")>>)
           /\ pc = "done" => AfterBreak = StageNotices \o <<Msg("Analysis cancelled")>>

\* A run that left the loop on the flag after one file or more has returned.
C2_Witness ==
    /\ cls = "ProjectAnalyzer"
    /\ has_callback
    /\ broke_at >= 1
    /\ pc = "done"

\* The per-file messages among those received.
PerFile == SelectSeq(progress, LAMBDA m : m.text \in {"Analyzing", "Scanning"})

\* C3: a run of analyze_project or scan_directory with a callback emits no
\* terminal message before it returns; when it has returned, its last message
\* is the one terminal message of the run ('completed' or 'cancelled'), and
\* the k-th per-file message is that of the k-th enumerated file.
C3_OneTerminalMessageLast ==
    has_callback =>
        /\ pc # "done" => \A k \in 1..Len(progress) : progress[k] \notin Terminal
        /\ pc = "done" =>
              /\ Len(progress) >= 1
              /\ progress[Len(progress)] \in Terminal
              /\ \A k \in 1..(Len(progress) - 1) : progress[k] \notin Terminal
        /\ \A k \in 1..Len(PerFile) :
              /\ PerFile[k].index = k
              /\ PerFile[k].name = PathName(files[k])
              /\ PerFile[k].total = Len(files)

\* A scan that emitted three per-file messages and then 'Scan cancelled' has returned.
C3_Witness ==
    /\ cls = "ProjectScanner"
    /\ pc = "done"
    /\ has_callback
    /\ Len(PerFile) = 3
    /\ progress[Len(progress)] = Msg("Scan cancelled")

\* C4: no failure on one file leaves analyze_project as an exception, and a
\* run that was not cancelled returns with a record for every enumerated file.
C4_NoPerFileFailurePropagates ==
    cls = "ProjectAnalyzer"
        => /\ pc # "raised"
           /\ (pc = "done" /\ broke_at = -1) => Len(result.file_analysis) = Len(files)

\* C5: analyze_project on a root that does not exist does not get past its
\* start: it raises, emits no 'completed' message and returns no result.
C5_MissingRootFailsTheRun ==
    (cls = "ProjectAnalyzer" /\ ~root_exists)
        => /\ pc \in {"idle", "start", "raised"}
           /\ \A k \in 1..Len(progress) : progress[k] # Msg("Analysis completed")

BaseFields == {"size", "extension", "type"}

SourceFields ==
    {"classes", "functions", "imports", "line_count", "complexity", "docstrings",
     "unused_imports"}

\* C6: every record of _analyze_file that is not an error record (those are
\* C7's) has the shape its type label decides: the source-analysis fields
\* under the label 'Python', and content_preview alone under any other label.
C6_ShapeByTypeLabel ==
    cls = "ProjectAnalyzer" =>
        \A k \in 1..Len(file_analysis) :
            LET info == file_analysis[k].value
            IN  "error" \notin DOMAIN info =>
                    IF info.type = "Python"
                    THEN SourceFields \subseteq DOMAIN info
                    ELSE DOMAIN info = BaseFields \cup {"content_preview"}

\* A source file (suffix .py) whose read or parse fails.
IsFailedSource(path) ==
    IsPySuffix(path) /\ (~FileAt(path).read_ok \/ ~FileAt(path).parse_ok)

\* The line count of the file at path when it is a source file that parses, else 0.
ParsedLines(path) ==
    IF IsPySuffix(path) /\ ~IsFailedSource(path) THEN LineCount(FileAt(path).text) ELSE 0

IssueKeys ==
    {"high_complexity_files", "missing_docstrings", "unused_imports", "large_files",
     "potential_bugs"}

\* C7: the record of a source file whose read or parse fails holds the error
\* and none of the structured fields; in the returned result it counts in
\* total_files, adds nothing to total_lines and has no entry in any issue list.
C7_ErrorRecordIsExcluded ==
    cls = "ProjectAnalyzer" =>
        /\ \A k \in 1..Len(file_analysis) :
              IsFailedSource(file_analysis[k].key) =>
                  DOMAIN file_analysis[k].value = BaseFields \cup {"error"}
        /\ pc = "done" =>
              LET fa == result.file_analysis
              IN  /\ result.architecture.total_files = Len(fa)
                  /\ result.summary.total_files = Len(fa)
                  /\ result.architecture.total_lines
                        = SumSeq([k \in 1..Len(fa) |-> ParsedLines(fa[k].key)])
                  /\ \A c \in IssueKeys : \A k \in 1..Len(result.issues[c]) :
                        ~IsFailedSource(result.issues[c][k].path)

\* A returned result that holds an error record beside a record with lines.
C7_Witness ==
    /\ cls = "ProjectAnalyzer"
    /\ pc = "done"
    /\ \E k \in 1..Len(result.file_analysis) : IsFailedSource(result.file_analysis[k].key)
    /\ result.architecture.total_lines > 0
    /\ result.summary.issues_count > 0

KW_os == <<"o", "s">>

Occurrences(sub, s) ==
    Cardinality({k \in 1..(Len(s) - Len(sub) + 1) : SubSeq(s, k, k + Len(sub) - 1) = sub})

\* A source file that is read and parsed, holds `import os`, and holds the
\* text "os" nowhere else.
ImportsOsAndNeverNamesIt(path) ==
    LET f == FileAt(path)
    IN  /\ IsPySuffix(path) /\ f.read_ok /\ f.parse_ok
        /\ \E k \in 1..Len(f.tree) :
              f.tree[k].kind = "Import" /\ f.tree[k].names = <<KW_os>>
        /\ Occurrences(KW_os, f.text) = 1

\* C8: for a source file that holds `import os` and the text "os" nowhere
\* else, the unused-import candidates of its record contain "os", and the
\* returned issues.unused_imports has an entry for the file.
C8_UnreferencedOsIsFlagged ==
    cls = "ProjectAnalyzer" =>
        \A k \in 1..Len(file_analysis) :
            ImportsOsAndNeverNamesIt(file_analysis[k].key) =>
                /\ \E j \in 1..Len(Get(file_analysis[k].value, "unused_imports", <<>>)) :
                      file_analysis[k].value.unused_imports[j] = KW_os
                /\ pc = "done" =>
                      \E j \in 1..Len(result.issues.unused_imports) :
                          result.issues.unused_imports[j].path = file_analysis[k].key

\* The context_data of the k-th save_analysis_context call.
SavedContext(k) == ContextData(saves[k].analysis_results, saves[k].project_path, saves[k].now)

\* C9: load_analysis_context returns exactly the context of the save that last
\* wrote the file: that save's context_data when its write completed, and None
\* when the write failed part-way or no save wrote the file since it was last
\* removed; the file holds one object, and the context of no earlier save is
\* returned.
C9_LoadReturnsLatestSave ==
    last_op = "load_analysis_context" =>
        IF writer = 0 THEN ret = None
        ELSE IF saves[writer].outcome = "ok"
        THEN /\ ret = SavedContext(writer)
             /\ Len(context_file.members) = Len(ContextKeys)
             /\ \A j \in 1..(writer - 1) : ret # SavedContext(j)
        ELSE ret = None

\* A load after two completed saves returned the context of the second.
C9_Witness ==
    /\ last_op = "load_analysis_context"
    /\ writer = 2
    /\ saves[1].outcome = "ok"
    /\ saves[2].outcome = "ok"
    /\ saves[1].project_path # saves[2].project_path
    /\ ret = SavedContext(2)

\* C10: the file is absent until the first save; a load that finds no file
\* returns None; and after clear_context the file is absent, has_context() is
\* false, and get_context_for_chat() and get_context_summary() return None.
C10_AbsentStoreLoadsNone ==
    /\ Len(saves) = 0 => ~context_file.exists
    /\ (last_op = "load_analysis_context" /\ ~context_file.exists)
          => ret = None
    /\ last_op = "clear_context"
          => /\ ~context_file.exists
             /\ ~has_context
             /\ get_context_for_chat(DefaultMaxLength) = None
             /\ get_context_summary = None

\* A load that found no file, after a completed save and the clear that removed it.
C10_Witness ==
    /\ last_op = "load_analysis_context"
    /\ ~context_file.exists
    /\ Len(saves) >= 1
    /\ saves[1].outcome = "ok"
    /\ ret = None

\* The prompt held by the manager's current context.
StoredPrompt == Get(current_context, "context_prompt", <<>>)

\* C11: the text get_context_for_chat(max_length) returns, marker included, is
\* at most max_length characters long, and a stored prompt not longer than
\* max_length is returned unchanged.
C11_ChatContextFitsMaxLength ==
    (last_op = "get_context_for_chat" /\ ret # None)
        => /\ Len(ret.text) <= ret.max_length
           /\ Len(StoredPrompt) <= ret.max_length => ret.text = StoredPrompt

\* C12: two runs of analyze_project on the same unchanged tree, neither of
\* them cancelled, return the same content: the same file records in the same
\* order and the same architecture, issues, suggestions, file_feedback and
\* summary.
C12_RepeatedRunsAgree ==
    \A j \in 1..Len(returned) : \A k \in 1..Len(returned) :
        (~returned[j].cancelled /\ ~returned[k].cancelled)
            => returned[j].at_return = returned[k].at_return

\* Two runs that were not cancelled have returned results that hold records.
C12_Witness ==
    /\ Len(returned) = 2
    /\ ~returned[1].cancelled
    /\ ~returned[2].cancelled
    /\ Len(returned[2].at_return.file_analysis) = 2
    /\ returned[2].at_return.summary.issues_count > 0

\* C13: a result that was returned holds, ever after, the content it was
\* returned with, whatever later runs on the same analyzer or on a new one do;
\* and the dict of a later result is not the dict of an earlier one.
C13_ReturnedResultsStayFixed ==
    /\ \A k \in 1..Len(returned) : returned[k].value = returned[k].at_return
    /\ \A j \in 1..Len(returned) : \A k \in 1..Len(returned) :
          j # k => returned[j].id # returned[k].id

\* A second run has added a record to its file_analysis after a first run
\* returned a result without records (it was cancelled before its first file).
C13_Witness ==
    /\ Len(returned) = 1
    /\ runs = 2
    /\ Len(returned[1].at_return.file_analysis) = 0
    /\ Len(file_analysis) >= 1

\* Whether a path lies beneath a directory, at any depth, whose name is excluded.
BeneathExcluded(path) ==
    \E k \in 1..Len(PathDirs(path)) : PathDirs(path)[k] \in exclude_dirs

\* C14: no enumerated file lies beneath a directory, at any depth below the
\* root, whose name is in the exclusion set, and every other file of the tree
\* is enumerated; over a root that holds nothing but excluded-name
\* subdirectories the enumeration is empty.
C14_NoFileBeneathExcludedDir ==
    pc \notin {"idle", "start"} =>
        /\ \A k \in 1..Len(files) : ~BeneathExcluded(files[k])
        /\ \A n \in fs : ~BeneathExcluded(Universe[n].path)
              => \E k \in 1..Len(files) : files[k] = Universe[n].path
        /\ (\A n \in fs : /\ Len(PathDirs(Universe[n].path)) >= 1
                            /\ PathDirs(Universe[n].path)[1] \in exclude_dirs)
              => files = <<>>

\* An enumeration over a tree that holds a file of utils, a file of
\* utils/__pycache__ and a file of .git has listed the first alone.
C14_Witness ==
    /\ pc = "loop"
    /\ fs = {9, 10, 11}
    /\ Len(files) = 1

\* Whether the returned file_analysis holds a record for every enumerated file.
HasEveryRecord ==
    /\ Len(result.file_analysis) = Len(files)
    /\ \A k \in 1..Len(files) : result.file_analysis[k].key = files[k]

\* C15: a run of analyze_project ends in one of the two terminal states,
\* Completed or Cancelled, and in no other way; a run that ends with
\* 'Analysis completed' has a record for every enumerated file, and a result
\* that lacks a record ends with 'Analysis cancelled'.
C15_CompletedOrCancelled ==
    cls = "ProjectAnalyzer" =>
        /\ pc # "raised"
        /\ (pc = "done" /\ has_callback) =>
              /\ progress[Len(progress)] \in AnalysisTerminal
              /\ progress[Len(progress)] = Msg("Analysis completed") => HasEveryRecord
              /\ ~HasEveryRecord => progress[Len(progress)] = Msg("Analysis cancelled")

\* Whether cancel_scan first set the flag while the run was between its start
\* and the end of its loop.
SetDuringLoop == set_at.pc \in {"start", "loop", "file"}

\* C16: once cancel_scan has set the flag during a run of analyze_project, at
\* most one more record is added to file_analysis: none when the flag was set
\* at a loop boundary, and, when it was set while a file was being processed,
\* the whole record of that file; no later file gets a record.
C16_AtMostOneMoreRecord ==
    (cls = "ProjectAnalyzer" /\ SetDuringLoop) =>
        /\ Len(file_analysis) <= set_at.i + 1
        /\ set_at.pc \in {"start", "loop"} => Len(file_analysis) = set_at.i
        /\ (set_at.pc = "file" /\ pc \notin {"file", "raised"})
              => /\ Len(file_analysis) = set_at.i + 1
                 /\ file_analysis[set_at.i + 1].key = files[set_at.i + 1]
                 /\ file_analysis[set_at.i + 1].value
                       = _analyze_file(FileAt(files[set_at.i + 1]))

\* A run over 4 files, cancelled while it processed the second, has returned 2 records.
C16_Witness ==
    /\ cls = "ProjectAnalyzer"
    /\ pc = "done"
    /\ Len(files) = 4
    /\ set_at = [pc |-> "file", i |-> 1]
    /\ Len(result.file_analysis) = 2

\* Whether the issues of the run have been detected.
IssuesDetected == pc \in {"suggestions", "feedback", "final", "done"}

\* The FunctionDef nodes of the file at path, and those among them with a docstring.
FunctionCount(path) ==
    Cardinality({k \in 1..Len(FileAt(path).tree) : FileAt(path).tree[k].kind = "FunctionDef"})

DocumentedCount(path) ==
    Cardinality({k \in 1..Len(FileAt(path).tree) :
                    FileAt(path).tree[k].kind = "FunctionDef" /\ FileAt(path).tree[k].doc})

\* Whether missing_docstrings has an entry for the file at path.
FlaggedForDocstrings(path) ==
    \E j \in 1..Len(issues.missing_docstrings) : issues.missing_docstrings[j].path = path

\* C17: missing_docstrings has an entry for a file exactly when the file has
\* at least one function and fewer than half of its functions are documented;
\* a file of 2 functions with 1 documented is not flagged.
C17_MissingDocstringsBelowHalf ==
    (cls = "ProjectAnalyzer" /\ IssuesDetected) =>
        \A k \in 1..Len(file_analysis) :
            LET path == file_analysis[k].key
            IN  /\ FlaggedForDocstrings(path)
                      <=> /\ FunctionCount(path) >= 1
                          /\ 2 * DocumentedCount(path) < FunctionCount(path)
                /\ (FunctionCount(path) = 2 /\ DocumentedCount(path) = 1)
                      => ~FlaggedForDocstrings(path)

\* The issues of a tree of a file with 1 of 2 functions documented and a file
\* with 1 of 3 hold one entry, for the second file.
C17_Witness ==
    /\ pc = "done"
    /\ Len(files) = 2
    /\ FunctionCount(files[1]) = 2 /\ DocumentedCount(files[1]) = 1
    /\ FunctionCount(files[2]) = 3 /\ DocumentedCount(files[2]) = 1
    /\ Len(result.issues.missing_docstrings) = 1
    /\ result.issues.missing_docstrings[1].path = files[2]

\* Whether the architecture of the run has been computed.
ArchitectureComputed == pc \in {"issues", "suggestions", "feedback", "final", "done"}

\* C18: avg_file_size is 0 when there are no records and is otherwise the sum
\* of the recorded sizes over total_files; neither it nor the summary's
\* test_coverage is ever a division by zero.
C18_AverageSizeDefined ==
    (cls = "ProjectAnalyzer" /\ ArchitectureComputed) =>
        /\ architecture.avg_file_size.den > 0
        /\ Len(file_analysis) = 0 => architecture.avg_file_size.num = 0
        /\ Len(file_analysis) > 0 =>
              architecture.avg_file_size
                  = Ratio(SumSeq([k \in 1..Len(file_analysis) |->
                                     FileAt(file_analysis[k].key).size]),
                          Len(file_analysis))
        /\ pc = "done" =>
              /\ result.summary.test_coverage.den > 0
              /\ result.architecture.avg_file_size = architecture.avg_file_size

\* A run over 3 files, cancelled before the first, has returned an average of 0.
C18_Witness ==
    /\ cls = "ProjectAnalyzer"
    /\ pc = "done"
    /\ Len(files) = 3
    /\ Len(result.file_analysis) = 0
    /\ result.architecture.avg_file_size.num = 0

\* C19: the content_preview of a parsed source file is the whole content when
\* the content is shorter than 500 characters, and the first 500 characters
\* followed by '...' when it is longer.
C19_PreviewOfParsedSource ==
    cls = "ProjectAnalyzer" =>
        \A k \in 1..Len(file_analysis) :
            LET content == FileAt(file_analysis[k].key).text
                info == file_analysis[k].value
            IN  "content_preview" \in DOMAIN info /\ "line_count" \in DOMAIN info =>
                    /\ Len(content) < PreviewChars => info.content_preview = content
                    /\ Len(content) > PreviewChars =>
                          info.content_preview
                              = SubSeq(content, 1, PreviewChars) \o <<".", ".", ".">>

\* The run holds the record of a source file of 501 characters, whose preview has 503.
C19_Witness ==
    \E k \in 1..Len(file_analysis) :
        /\ Len(FileAt(file_analysis[k].key).text) = PreviewChars + 1
        /\ Len(file_analysis[k].value.content_preview) = PreviewChars + 3

\* Whether a lowercased path holds one of two keywords.
HoldsEither(lowered, first, second) == Contains(first, lowered) \/ Contains(second, lowered)

\* The list the claim gives a path: that of the first pair of keywords, in the
\* order main/app, util/helper, test/spec, config/settings, that the
\* lowercased path holds.
ListOf(path) ==
    LET lowered == Lower(path)
    IN  IF HoldsEither(lowered, KW_main, KW_app) THEN "main_modules"
        ELSE IF HoldsEither(lowered, KW_util, KW_helper) THEN "utils_modules"
        ELSE IF HoldsEither(lowered, KW_test, KW_spec) THEN "test_files"
        ELSE IF HoldsEither(lowered, KW_config, KW_settings) THEN "config_files"
        ELSE "none"

CategoryLists == {"main_modules", "utils_modules", "test_files", "config_files"}

\* C20: each path of file_analysis is in the one list its first matching pair
\* of keywords names and in no other, once; a path that holds no keyword is
\* in none; d1/tests/test_main.py is in main_modules and not in test_files.
C20_FirstMatchingCategory ==
    (cls = "ProjectAnalyzer" /\ ArchitectureComputed) =>
        /\ \A k \in 1..Len(file_analysis) :
              LET list == ListOf(file_analysis[k].key)
              IN  \A c \in CategoryLists :
                      Cardinality({j \in 1..Len(architecture[c]) :
                                      architecture[c][j] = file_analysis[k].key})
                          = IF c = list THEN 1 ELSE 0
        /\ \A c \in CategoryLists : \A j \in 1..Len(architecture[c]) :
              \E k \in 1..Len(file_analysis) : file_analysis[k].key = architecture[c][j]
        /\ \A j \in 1..Len(architecture.test_files) :
              architecture.test_files[j] # <<"d", "1", "/", "t", "e", "s", "t", "s", "/", "t",
                      "e", "s", "t", "_", "m", "a", "i", "n", ".", "p", "y">>

\* The architecture of a tree of d1/tests/test_main.py and d2/notes.py lists
\* the first under main_modules alone and the second nowhere.
C20_Witness ==
    /\ pc = "done"
    /\ files = <<<<"d", "1", "/", "t", "e", "s", "t", "s", "/", "t", "e", "s", "t", "_", "m",
            "a", "i", "n", ".", "p", "y">>, <<"d", "2", "/", "n", "o", "t", "e", "s", ".",
                    "p", "y">>>>
    /\ result.architecture.main_modules = <<<<"d", "1", "/", "t", "e", "s", "t", "s", "/",
            "t", "e", "s", "t", "_", "m", "a", "i", "n", ".", "p", "y">>>>
    /\ result.architecture.test_files = <<>>
    /\ result.architecture.utils_modules = <<>>
    /\ result.architecture.config_files = <<>>

\* The nodes of a tree that lie in the scope of node top (top = 0: the file).
ScopeOf(tree, top) == {k \in 1..Len(tree) : top = 0 \/ InSubtree(tree, top, k)}

\* The score the specification gives a scope: 1, one more for each If, For,
\* While and Try in it, and one more for each operand after the first of each
\* `and` expression in it.
ExpectedScore(tree, scope) ==
    1 + Cardinality({k \in scope : tree[k].kind \in {"If", "For", "While", "Try"}})
      + Cardinality({pair \in scope \X (1..(MaxOperands + 1)) :
                        /\ tree[pair[1]].kind = "BoolOp"
                        /\ tree[pair[1]].op = "And"
                        /\ pair[2] < tree[pair[1]].nvalues})

\* Whether a tree holds none of the constructs the score counts.
NoBranching(tree) ==
    \A k \in 1..Len(tree) :
        /\ tree[k].kind \notin {"If", "For", "While", "Try"}
        /\ ~(tree[k].kind = "BoolOp" /\ tree[k].op = "And")

\* C21: the complexity recorded for a parsed source file is 1 plus the number
\* of its If, For, While and Try nodes plus operands - 1 for each `and`
\* expression; `or` expressions add nothing, and a file with none of the
\* counted constructs has complexity 1.
C21_FileComplexity ==
    cls = "ProjectAnalyzer" =>
        \A k \in 1..Len(file_analysis) :
            LET tree == FileAt(file_analysis[k].key).tree
                info == file_analysis[k].value
            IN  "complexity" \in DOMAIN info =>
                    /\ info.complexity = ExpectedScore(tree, ScopeOf(tree, 0))
                    /\ NoBranching(tree) => info.complexity = 1

\* A file with a while loop at module level and `a and b and c` in a nested
\* function has complexity 4.
C21_Witness ==
    /\ Len(file_analysis) = 1
    /\ "complexity" \in DOMAIN file_analysis[1].value
    /\ LET tree == generated[1].tree
       IN  /\ Len(tree) = 4
           /\ tree[1].kind = "While"
           /\ tree[4].kind = "BoolOp" /\ tree[4].op = "And" /\ tree[4].nvalues = 3
    /\ file_analysis[1].value.complexity = 4

\* C22: the complexity recorded for each function of a parsed source file is
\* 1 plus the number of If, For, While and Try nodes in the function's scope
\* plus operands - 1 for each `and` expression in that scope, and is at least 1.
C22_FunctionComplexity ==
    cls = "ProjectAnalyzer" =>
        \A k \in 1..Len(file_analysis) :
            LET tree == FileAt(file_analysis[k].key).tree
                info == file_analysis[k].value
                defs == SelectSeq([n \in 1..Len(tree) |-> n],
                                  LAMBDA n : tree[n].kind = "FunctionDef")
            IN  "functions" \in DOMAIN info =>
                    \A j \in 1..Len(info.functions) :
                        /\ info.functions[j].complexity >= 1
                        /\ info.functions[j].complexity
                              = ExpectedScore(tree, ScopeOf(tree, defs[j]))

\* The seven rules: the list a rule writes to, its suggestion, and whether its
\* condition holds of the architecture summary and issue set held.
SuggestionRules ==
    <<[list |-> "architecture",
       text |-> "Consider creating a main entry point file (main.py, app.py, etc.)",
       holds |-> Len(architecture.main_modules) = 0],
      [list |-> "architecture", text |-> "Add unit tests to improve code reliability",
       holds |-> Len(architecture.test_files) = 0],
      [list |-> "code_quality",
       text |-> "Refactor high-complexity functions into smaller, more focused functions",
       holds |-> issues.high_complexity_files # <<>>],
      [list |-> "code_quality", text |-> "Add docstrings to all public functions and classes",
       holds |-> issues.missing_docstrings # <<>>],
      [list |-> "code_quality", text |-> "Remove unused imports to clean up the codebase",
       holds |-> issues.unused_imports # <<>>],
      [list |-> "performance", text |-> "Consider breaking large files into smaller modules",
       holds |-> architecture.avg_file_size.num
                    > LargeAverageSize * architecture.avg_file_size.den],
      [list |-> "maintainability", text |-> "Consider organizing code into packages/submodules",
       holds |-> architecture.total_files > ManyFiles]>>

\* How many times a text occurs in a list.
TimesIn(list, text) == Cardinality({k \in 1..Len(list) : list[k] = text})

\* C23: the suggestions returned hold the suggestion of each of the seven
\* rules once, in the rule's list, exactly when the rule's condition holds of
\* the architecture summary and the issue set, whatever the other rules do and
\* whatever file_analysis holds; they hold nothing else.
C23_RulesFireIndependently ==
    pc = "suggested" =>
        /\ \A r \in 1..Len(SuggestionRules) :
              TimesIn(suggestions[SuggestionRules[r].list], SuggestionRules[r].text)
                  = IF SuggestionRules[r].holds THEN 1 ELSE 0
        /\ \A list \in DOMAIN suggestions :
              Len(suggestions[list])
                  = Cardinality({r \in 1..Len(SuggestionRules) :
                                    SuggestionRules[r].list = list /\ SuggestionRules[r].holds})

\* All seven rules fire together: an average size of 100000.5 bytes, 51 files.
C23_Witness ==
    /\ pc = "suggested"
    /\ \A r \in 1..Len(SuggestionRules) : SuggestionRules[r].holds
    /\ architecture.avg_file_size = Ratio(2 * LargeAverageSize + 1, 2)
    /\ Len(suggestions.architecture) = 2
    /\ Len(suggestions.code_quality) = 3
    /\ Len(suggestions.performance) = 1
    /\ Len(suggestions.maintainability) = 1

\* The keys of the records of file_analysis whose type label is 'Python'.
PythonLabelled ==
    {file_analysis[k].key : k \in {n \in 1..Len(file_analysis) :
                                      Get(file_analysis[n].value, "type", "") = "Python"}}

\* C24: every entry of the five issue lists is for a record labelled 'Python',
\* no record has two entries in one list, and the summary's issues_count is at
\* most 5 times the number of records labelled 'Python'.
C24_OnlyPythonRecordsHaveIssues ==
    (cls = "ProjectAnalyzer" /\ IssuesDetected) =>
        /\ \A c \in IssueKeys :
              /\ \A j \in 1..Len(issues[c]) : issues[c][j].path \in PythonLabelled
              /\ \A j, n \in 1..Len(issues[c]) : issues[c][j].path = issues[c][n].path => j = n
        /\ pc = "done" => result.summary.issues_count <= 5 * Cardinality(PythonLabelled)

\* A finished run over main.py and README.md, whose content holds TODO: the
\* only entry is for main.py.
C24_Witness ==
    /\ cls = "ProjectAnalyzer"
    /\ pc = "done"
    /\ fs = {1, 3}
    /\ Len(result.file_analysis) = 2
    /\ Contains(KW_TODO, result.file_analysis[2].value.content_preview)
    /\ result.file_analysis[2].value.type = "Markdown"
    /\ result.issues.potential_bugs = <<>>
    /\ result.summary.issues_count = 1
    /\ PythonLabelled = {File_main.path}

\* C25 as stated: during analyze_project, the record of every file whose
\* per-file message has been delivered is in file_analysis.
C25_RecordPresentAtNotification ==
    (cls = "ProjectAnalyzer" /\ has_callback /\ raised = "") =>
        \A k \in 1..Len(PerFile) : DictIndex(file_analysis, files[k]) # 0

\* C25, amended: the message for a file is delivered, from within the
\* analyzer's loop, before the file is processed: when it has been delivered
\* and the file's record is not yet stored, it is the last message received,
\* the records of the files before it are in file_analysis and its own is not.
C25_NotifiedBeforeProcessed ==
    (cls = "ProjectAnalyzer" /\ has_callback /\ pc = "file") =>
        /\ progress # <<>>
        /\ progress[Len(progress)]
              = FileMsg("Analyzing", PathName(files[i + 1]), i + 1, Len(files))
        /\ Len(PerFile) = i + 1
        /\ \A k \in 1..i : DictIndex(file_analysis, files[k]) = k
        /\ DictIndex(file_analysis, files[i + 1]) = 0
        /\ Len(file_analysis) = i

\* The message of the second of three files has been delivered: the first
\* file's record is stored, the second's is not.
C25_Witness ==
    /\ cls = "ProjectAnalyzer"
    /\ has_callback
    /\ pc = "file"
    /\ Len(files) = 3
    /\ i = 1
    /\ progress[Len(progress)].index = 2
    /\ Len(file_analysis) = 1
    /\ file_analysis[1].key = files[1]

\* The lines of the report's architecture block that start with a label.
ArchitectureLines(label) == SelectSeq(output.architecture, LAMBDA l : IsPrefix(label, l))

\* The two capped lists of the architecture block, each with its label.
CappedLists ==
    {[label |-> <<"*", "*", "M", "a", "i", "n", " ", "M", "o", "d", "u", "l", "e", "s", ":",
            "*", "*", " ">>, modules |-> result.architecture.main_modules],
     [label |-> <<"*", "*", "U", "t", "i", "l", "i", "t", "y", " ", "M", "o", "d", "u", "l",
             "e", "s", ":", "*", "*", " ">>, modules |-> result.architecture.utils_modules]}

\* Whether the block shows a list by its first 5 entries at most: one line
\* that holds them and none of the later ones, and no line for an empty list.
ShowsFirstFive(c) ==
    IF Len(c.modules) = 0 THEN ArchitectureLines(c.label) = <<>>
    ELSE /\ Len(ArchitectureLines(c.label)) = 1
         /\ IsPrefix(c.label \o Join(<<",",
                 " ">>, SliceTo(c.modules, 5)), ArchitectureLines(c.label)[1])
         /\ \A k \in 6..Len(c.modules) : ~Contains(c.modules[k], ArchitectureLines(c.label)[1])

\* C26 as stated: the architecture block shows at most the first 5 main and
\* the first 5 utility modules, and a list of more than 5 entries is followed
\* by 'and N more', N the number of entries left out.
C26_AndNMoreSuffix ==
    pc = "formatted" =>
        \A c \in CappedLists :
            /\ ShowsFirstFive(c)
            /\ Len(c.modules) > 5 =>
                  Contains(<<"a", "n", "d", " ">> \o IntChars(Len(c.modules) - 5) \o <<" ",
                          "m", "o", "r", "e">>,
                           ArchitectureLines(c.label)[1])

\* C26, amended: the architecture block shows at most the first 5 main and the
\* first 5 utility modules; a list of more than 5 entries is followed by
\* '...', which does not tell how many entries are left out, and a list of at
\* most 5 entries is shown whole with nothing after it.
C26_FirstFiveThenEllipsis ==
    pc = "formatted" =>
        \A c \in CappedLists :
            /\ ShowsFirstFive(c)
            /\ Len(c.modules) > 0 =>
                  ArchitectureLines(c.label)[1]
                      = c.label \o Join(<<",", " ">>, SliceTo(c.modules, 5))
                        \o (IF Len(c.modules) > 5 THEN <<".", ".", ".">> ELSE <<>>) \o <<"\n">>

\* A report of 6 main modules and 5 utility modules: the first list ends with
\* 'main5.py...', the second with 'util5.py'.
C26_Witness ==
    /\ pc = "formatted"
    /\ Len(result.architecture.main_modules) = 6
    /\ Len(result.architecture.utils_modules) = 5
    /\ Contains(<<"m", "a", "i", "n", "5", ".", "p", "y", ".", ".", ".",
            "\n">>, output.architecture[2])
    /\ Contains(<<"u", "t", "i", "l", "5", ".", "p", "y", "\n">>, output.architecture[3])

\* C27: a cancel_scan() that came before the run's clear of the flag leaves no
\* trace in the run: unless cancel_scan() is called again, the flag stays
\* clear, the loop takes no break, and once the run has returned it has a
\* record for every enumerated file and its last message is the 'completed' one.
C27_EarlyCancelHasNoEffect ==
    set_at = Cleared =>
        /\ ~cancel_event
        /\ broke_at = -1
        /\ pc = "done" =>
              /\ IF cls = "ProjectAnalyzer" THEN HasEveryRecord ELSE Len(result) = Len(files)
              /\ has_callback =>
                    progress[Len(progress)]
                        = IF cls = "ProjectAnalyzer" THEN Msg("Analysis completed")
                          ELSE Msg("Scan completed")

\* A run of analyze_project over 3 files that began with the flag set has
\* returned 3 records and ended with 'Analysis completed'.
C27_Witness ==
    /\ cls = "ProjectAnalyzer"
    /\ set_at = Cleared
    /\ pc = "done"
    /\ has_callback
    /\ Len(files) = 3
    /\ Len(result.file_analysis) = 3
    /\ progress[Len(progress)] = Msg("Analysis completed")

SaveFailed ==
    /\ last_op = "save_analysis_context"
    /\ saves[Len(saves)].outcome # "ok"

\* C29: a save_analysis_context call whose open or write fails returns to its
\* caller (with None) and leaves current_context and context_summary as they
\* were before the call; and in every state the calls of the manager reach,
\* current_context and context_summary are both None or both set.
C29_FailedSaveLeavesFields ==
    /\ []((current_context = None) <=> (context_summary = None))
    /\ [][(Len(saves') = Len(saves) + 1 /\ SaveFailed') =>
              /\ ret' = None
              /\ current_context' = current_context
              /\ context_summary' = context_summary]_vars

\* A save whose write failed part-way, after an earlier save had set the fields:
\* the file holds the cut-off text and the fields still hold the earlier save.
C29_Witness ==
    /\ SaveFailed
    /\ saves[Len(saves)].outcome = "write_fails"
    /\ context_file.exists /\ ~context_file.closed
    /\ Len(saves) >= 2
    /\ saves[Len(saves) - 1].outcome = "ok"
    /\ saves[Len(saves) - 1].project_path # saves[Len(saves)].project_path
    /\ current_context = ContextTable[saves[Len(saves) - 1].analysis_results,
                                      saves[Len(saves) - 1].project_path,
                                      saves[Len(saves) - 1].now]
    /\ context_summary = _create_context_summary(current_context)

\* ------------------------------------------------------------------ C30

\* The positions in emitted of the emissions of finished_signal.
FinishedAt == {k \in 1..Len(emitted) : emitted[k] = FinishedSignal}

\* C30: run() emits finished_signal exactly once, as its last emission, on
\* every path: while run() has not returned nothing of finished_signal has
\* been emitted, and once it has returned, whichever way it went (the process
\* exited, a stop was requested, the timeout elapsed, the PTY path failed and
\* the PIPE path took over, starting or reading the process raised), the
\* one emission of finished_signal is the last emission.
C30_FinishedOnceAndLast ==
    /\ typing # "returned" => FinishedAt = {}
    /\ typing = "returned" => FinishedAt = {Len(emitted)} /\ emitted # <<>>

\* A run on posix whose PTY path failed, whose PIPE path read output, and
\* which a stop request then ended.
C30_Witness ==
    /\ typing = "returned"
    /\ os_name = "posix"
    /\ process = "pipe"
    /\ stop_flag
    /\ Len(emitted) = 3
    /\ emitted[1] = NewChar("char")
    /\ emitted[2] = NewChar("[Generation Stopped]")
    /\ emitted[3] = FinishedSignal

====
